---------------------------- MODULE Spec2Model ----------------------------
(***************************************************************************)
(* Monitoring and retraining-trigger engine of ml-poc.                     *)
(*                                                                         *)
(* Numbers that are floats in the source are carried as scaled integers:   *)
(*   scores, accuracies and p-values in thousandths (0.3 is 300),          *)
(*   z-scores in tenths (3.0 is 30), percentages as whole percents.        *)
(* A quotient the source computes in floating point is carried as an exact *)
(* fraction [num, den] and compared by cross-multiplication.               *)
(***************************************************************************)
EXTENDS Integers, Sequences, FiniteSets, TLC

VARIABLES
    trigger,          \* RetaininingTrigger instance: its three thresholds
    evalArgs,         \* arguments of the last evaluate() call
    evaluation,       \* dictionary returned by the last evaluate() call
    manager,          \* AlertManager instance: its anomaly_alert_threshold
    drift_results,    \* drift dictionary handed to the last create_alert_from_drift()
    alert,            \* what that call returned: an alert dictionary or None
    alert_id,         \* what save_alert returned for it (0: save_alert not called)
    monitoring_events, \* rows of the monitoring_events table, oldest first
    alert_call,       \* the last AlertManager query: operation, arguments, the
                      \* alerts it read and the summary it returned, if any
    now,              \* the clock behind CURRENT_TIMESTAMP and DATE('now'), in days
    retraining_log,   \* rows of the retraining_log table; a row's id is its index
    predictions,      \* rows of the predictions table, a set of records
    pred_seq,         \* AUTOINCREMENT counter of the predictions table
    pred_call,        \* the last PredictionsDB call: operation, arguments, result
    feedback,         \* rows of the feedback table; a row's id is its index
    feedback_call,    \* the last FeedbackDB query: operation, arguments, result
    scheduler,        \* RetrainingScheduler.scheduler: 0 (None) or the handle
                      \* of the BackgroundScheduler it created
    jobs,             \* handles of the BackgroundSchedulers whose interval job
                      \* 'retrain_check' is armed
    auto_retrain,     \* RetrainingScheduler.auto_retrain
    last_check,       \* RetrainingScheduler.last_check, NULL or <<time>>
    last_retrain,     \* RetrainingScheduler.last_retrain, NULL or <<time>>
    starts,           \* number of start() calls made so far
    checks,           \* number of _check_conditions() runs begun so far
    checks_log,       \* lines of logs/retraining_checks.jsonl
    history_log,      \* lines of logs/retraining_history.jsonl
    failures_log,     \* lines of logs/retraining_failures.jsonl
    sched_call,       \* the last call on the scheduler (or firing of its job):
                      \* its name, a bit that flips with every call, how its
                      \* _check_conditions() run went, and what it returned
    retrain_calls,    \* number of _execute_retraining() calls made so far
    min_samples,      \* DriftDetector.min_samples
    baseline_mean,    \* DriftDetector.baseline_mean, NULL (None) or <<mean>>
    baseline_std,     \* DriftDetector.baseline_std, NULL (None) or <<std>>
    det_call,         \* the last DriftDetector call: operation, arguments, result
    in_flight,        \* for each thread, the _check_conditions() run it is
                      \* inside (None when it is in none)
    stopping          \* a stop() call is inside scheduler.shutdown()

trigVars == <<trigger, evalArgs, evaluation>>
alertVars == <<manager, drift_results, alert, alert_id, monitoring_events,
               alert_call>>
sessVars == <<retraining_log>>
predVars == <<predictions, pred_seq, pred_call>>
fbVars == <<feedback, feedback_call>>
detVars == <<min_samples, baseline_mean, baseline_std, det_call>>
thrVars == <<in_flight, stopping>>
schedVars == <<scheduler, jobs, auto_retrain, last_check, last_retrain,
               starts, checks, checks_log, history_log, failures_log,
               sched_call, retrain_calls>>

vars == <<trigger, evalArgs, evaluation,
          manager, drift_results, alert, alert_id, monitoring_events,
          alert_call,
          now, retraining_log, predictions, pred_seq, pred_call,
          feedback, feedback_call,
          scheduler, jobs, auto_retrain, last_check, last_retrain,
          starts, checks, checks_log, history_log, failures_log,
          sched_call, retrain_calls,
          min_samples, baseline_mean, baseline_std, det_call,
          in_flight, stopping>>

\* Python None where a dictionary is expected.
None == [none |-> TRUE]

(***************************************************************************)
(* RetaininingTrigger (src/src/monitoring/retraining_trigger.py)           *)
(***************************************************************************)

\* Constructor defaults.
feedback_threshold_default == 50
drift_threshold_default == 300
accuracy_drop_threshold_default == 50

DefaultTrigger ==
    [feedback_threshold      |-> feedback_threshold_default,
     drift_threshold         |-> drift_threshold_default,
     accuracy_drop_threshold |-> accuracy_drop_threshold_default]

\* The thresholds are constructor arguments: the defaults and one other choice.
TriggerConfigs ==
    {DefaultTrigger,
     [feedback_threshold |-> 10, drift_threshold |-> 500,
      accuracy_drop_threshold |-> 100]}

\* Inputs of evaluate(): values on both sides of every threshold.
FeedbackCounts == {0, 9, 10, 49, 50, 60}
DriftScores == {0, 299, 300, 350, 500, 1000}
RecentAccuracies == {0, 790, 836, 837, 880, 950}
BaselineAccuracies == {0, 880, 1000}

\* accuracy_drop = 1 - recent/baseline if baseline > 0 else 0, as a fraction.
AccuracyDrop(recent_accuracy, baseline_accuracy) ==
    IF baseline_accuracy > 0
    THEN [num |-> baseline_accuracy - recent_accuracy, den |-> baseline_accuracy]
    ELSE [num |-> 0, den |-> 1]

\* frac >= thousandths / 1000
FracGeq(frac, thousandths) == frac.num * 1000 >= thousandths * frac.den

\* sum([...]) over three booleans
CountTrue(b1, b2, b3) ==
    (IF b1 THEN 1 ELSE 0) + (IF b2 THEN 1 ELSE 0) + (IF b3 THEN 1 ELSE 0)

ShouldRetrainAny(conditions_met) == conditions_met >= 1

ShouldRetrain(conditions_met) == conditions_met >= 2

\* The reasons list joined into the reason string.
Reasons(cf, cd, ca) ==
    LET r == (IF cf THEN <<"Sufficient feedback">> ELSE <<>>)
             \o (IF cd THEN <<"Drift detected">> ELSE <<>>)
             \o (IF ca THEN <<"Accuracy drop">> ELSE <<>>)
    IN  IF r = <<>> THEN <<"No trigger conditions met">> ELSE r

\* min(frac, 1.0)
FracMin1(frac) ==
    IF frac.num >= frac.den THEN [num |-> 1, den |-> 1] ELSE frac

\* (f1 + f2 + f3) / 3
FracAvg3(f1, f2, f3) ==
    [num |-> f1.num * f2.den * f3.den + f2.num * f1.den * f3.den
             + f3.num * f1.den * f2.den,
     den |-> 3 * f1.den * f2.den * f3.den]

\* feedback_count / feedback_threshold capped at 1.0
feedback_score(self, feedback_count) ==
    FracMin1([num |-> feedback_count, den |-> self.feedback_threshold])

\* drift_score / drift_threshold capped at 1.0
drift_score_norm(self, drift_score) ==
    FracMin1([num |-> drift_score, den |-> self.drift_threshold])

\* accuracy_drop / accuracy_drop_threshold capped at 1.0
accuracy_score(self, accuracy_drop) ==
    FracMin1([num |-> accuracy_drop.num * 1000,
              den |-> accuracy_drop.den * self.accuracy_drop_threshold])

_calculate_confidence(self, feedback_count, drift_score, accuracy_drop) ==
    FracMin1(FracAvg3(feedback_score(self, feedback_count),
                      drift_score_norm(self, drift_score),
                      accuracy_score(self, accuracy_drop)))

evaluate(self, feedback_count, drift_score, recent_accuracy, baseline_accuracy) ==
    LET accuracy_drop == AccuracyDrop(recent_accuracy, baseline_accuracy)
        condition_feedback == feedback_count >= self.feedback_threshold
        condition_drift == drift_score >= self.drift_threshold
        condition_accuracy == FracGeq(accuracy_drop, self.accuracy_drop_threshold)
        conditions_met ==
            CountTrue(condition_feedback, condition_drift, condition_accuracy)
        should_retrain == ShouldRetrain(conditions_met)
    IN  [should_retrain     |-> should_retrain,
         reason             |-> <<IF should_retrain THEN "triggered"
                                                    ELSE "not triggered">>
                                \o Reasons(condition_feedback, condition_drift,
                                           condition_accuracy),
         confidence         |-> _calculate_confidence(self, feedback_count,
                                                      drift_score, accuracy_drop),
         conditions_met     |-> conditions_met,
         accuracy_drop      |-> accuracy_drop,
         condition_feedback |-> condition_feedback,
         condition_drift    |-> condition_drift,
         condition_accuracy |-> condition_accuracy]

TrigInit ==
    /\ trigger \in TriggerConfigs
    /\ evalArgs = None
    /\ evaluation = None

TrigIdle ==
    /\ trigger = DefaultTrigger
    /\ evalArgs = None
    /\ evaluation = None

Evaluate ==
    \E fc \in FeedbackCounts, ds \in DriftScores,
       ra \in RecentAccuracies, ba \in BaselineAccuracies :
        /\ evalArgs' = [feedback_count |-> fc, drift_score |-> ds,
                        recent_accuracy |-> ra, baseline_accuracy |-> ba]
        /\ evaluation' = evaluate(trigger, fc, ds, ra, ba)
        /\ UNCHANGED trigger
        /\ UNCHANGED <<detVars, thrVars, schedVars, alertVars, now, sessVars, predVars, fbVars>>

TrigNext == Evaluate

(***************************************************************************)
(* Python dictionaries are functions on the set of keys present.           *)
(***************************************************************************)
EmptyDict == [k \in {} |-> FALSE]

\* d.get(k, default)
Get(d, k, default) == IF k \in DOMAIN d THEN d[k] ELSE default

(***************************************************************************)
(* DriftDetector results (src/src/monitoring/drift_detector.py).  The      *)
(* statistics of the analysed window (number of points over the z-score    *)
(* threshold, largest z-score, KS p-value, mean and trend change) are the  *)
(* inputs; the flags are derived from them as the detector derives them.   *)
(***************************************************************************)
z_score_threshold == 20
min_samples_default == 10
ks_test_threshold == 50

\* detect_anomalies_zscore: anomalies = z_scores > threshold
AnomalyResult(anomaly_count, max_z_score) ==
    [has_anomalies |-> anomaly_count > 0,
     anomaly_count |-> anomaly_count,
     max_z_score   |-> max_z_score,
     threshold     |-> z_score_threshold]

\* (number of points over the threshold, largest z-score) of a window
AnomalyStats == {<<0, 5>>, <<1, 25>>, <<1, 31>>, <<2, 30>>}

\* detect_drift_ks_test, too few samples or no baseline
KsInsufficient ==
    [has_drift |-> FALSE, p_value |-> 1000, mean_change_pct |-> 0,
     error |-> "Insufficient samples"]

\* detect_drift_ks_test after the test ran
KsResult(p_value, mean_change_pct) ==
    [has_drift       |-> p_value < ks_test_threshold,
     p_value         |-> p_value,
     mean_change_pct |-> mean_change_pct]

\* (p-value, mean change in percent) of a window against the baseline
KsStats == {<<5, 20>>, <<10, 12>>, <<870, 0>>}

\* detect_trend_drift, fewer values than the window
TrendInsufficient ==
    [has_trend_drift |-> FALSE, trend_direction |-> "unknown",
     trend_change_pct |-> 0, error |-> "Insufficient samples"]

Abs(x) == IF x < 0 THEN -x ELSE x

\* detect_trend_drift after the split
TrendResult(change_pct) ==
    [has_trend_drift  |-> IF Abs(change_pct) < 5 THEN FALSE
                          ELSE Abs(change_pct) > 10,
     trend_direction  |-> IF Abs(change_pct) < 5 THEN "stable"
                          ELSE IF change_pct > 0 THEN "up" ELSE "down",
     trend_change_pct |-> change_pct]

TrendStats == {0, 12, -20}

check_all_drifts(anom_result, dist_result, trend_result) ==
    [anomalies              |-> anom_result,
     distribution_drift     |-> dist_result,
     trend_drift            |-> trend_result,
     overall_drift_detected |-> \/ anom_result.has_anomalies
                                \/ dist_result.has_drift
                                \/ trend_result.has_trend_drift]

\* Every dictionary check_all_drifts can return over the statistics above.
CheckAllResults ==
    {check_all_drifts(a, d, t) :
        a \in {AnomalyResult(s[1], s[2]) : s \in AnomalyStats},
        d \in {KsInsufficient} \cup {KsResult(s[1], s[2]) : s \in KsStats},
        t \in {TrendInsufficient} \cup {TrendResult(c) : c \in TrendStats}}

(***************************************************************************)
(* AlertManager (src/src/monitoring/alerts.py)                             *)
(***************************************************************************)
anomaly_alert_threshold_default == 2

RECOMMENDATIONS ==
    [anomaly            |-> "Check data quality",
     distribution_drift |-> "Consider model retraining",
     trend_drift        |-> "Monitor upcoming predictions closely",
     multi_signal       |-> "Immediate action required"]

\* The anomaly signal of _determine_alert_type.
AnomalySignalAnyAnomaly(self, anomalies) ==
    Get(anomalies, "has_anomalies", FALSE)

AnomalySignal(self, anomalies) ==
    /\ Get(anomalies, "has_anomalies", FALSE)
    /\ Get(anomalies, "anomaly_count", 0) >= self.anomaly_alert_threshold

\* The final choice of _determine_alert_type, from the signal count and the
\* first signal seen (None: no signal).
FinalType(signals, primary_type) ==
    IF signals >= 2 THEN "multi_signal"
    ELSE IF primary_type # "None" THEN primary_type
    ELSE "anomaly"

_determine_alert_type(self, results) ==
    LET anomalies == Get(results, "anomalies", EmptyDict)
        distribution == Get(results, "distribution_drift", EmptyDict)
        trend == Get(results, "trend_drift", EmptyDict)
        s1 == AnomalySignal(self, anomalies)
        s2 == Get(distribution, "has_drift", FALSE)
        s3 == Get(trend, "has_trend_drift", FALSE)
        signals == CountTrue(s1, s2, s3)
        primary_type == IF s1 THEN "anomaly"
                        ELSE IF s2 THEN "distribution_drift"
                        ELSE IF s3 THEN "trend_drift"
                        ELSE "None"
    IN  FinalType(signals, primary_type)

_calculate_severity_noPValue(results, alert_type) ==
    LET anomalies == Get(results, "anomalies", EmptyDict)
    IN  IF alert_type = "multi_signal" THEN "critical"
        ELSE IF Get(anomalies, "max_z_score", 0) > 30 THEN "critical"
        ELSE "warning"

_calculate_severity(results, alert_type) ==
    LET anomalies == Get(results, "anomalies", EmptyDict)
        distribution == Get(results, "distribution_drift", EmptyDict)
        trend == Get(results, "trend_drift", EmptyDict)
    IN  IF alert_type = "multi_signal" THEN "critical"
        ELSE IF Get(anomalies, "max_z_score", 0) > 30 THEN "critical"
        ELSE IF Get(distribution, "p_value", 1000) < 10 THEN "critical"
        ELSE IF Abs(Get(distribution, "mean_change_pct", 0)) > 15 THEN "warning"
        ELSE IF Abs(Get(trend, "trend_change_pct", 0)) > 15 THEN "warning"
        ELSE "warning"

\* The message: its fixed text and the quantities formatted into it.
_generate_message(alert_type, results) ==
    LET anomalies == Get(results, "anomalies", EmptyDict)
        distribution == Get(results, "distribution_drift", EmptyDict)
        trend == Get(results, "trend_drift", EmptyDict)
    IN  CASE alert_type = "anomaly" ->
               [text |-> "Anomaly detected",
                args |-> <<Get(anomalies, "anomaly_count", 0),
                           Get(anomalies, "max_z_score", 0)>>]
          [] alert_type = "distribution_drift" ->
               [text |-> "Distribution shift detected",
                args |-> <<Get(distribution, "p_value", 0),
                           Get(distribution, "mean_change_pct", 0)>>]
          [] alert_type = "trend_drift" ->
               [text |-> "Trend change detected",
                args |-> <<Get(trend, "trend_direction", "unknown"),
                           Get(trend, "trend_change_pct", 0)>>]
          [] alert_type = "multi_signal" ->
               [text |-> "Multiple drift signals",
                args |-> (IF Get(anomalies, "has_anomalies", FALSE)
                          THEN <<"anomalies">> ELSE <<>>)
                         \o (IF Get(distribution, "has_drift", FALSE)
                             THEN <<"distribution shift">> ELSE <<>>)
                         \o (IF Get(trend, "has_trend_drift", FALSE)
                             THEN <<"trend change">> ELSE <<>>)]
          [] OTHER -> [text |-> "Drift detected", args |-> <<>>]

NoDriftReportedOrNoSignal(self, results) ==
    \/ ~Get(results, "overall_drift_detected", FALSE)
    \/ /\ ~AnomalySignal(self, Get(results, "anomalies", EmptyDict))
       /\ ~Get(Get(results, "distribution_drift", EmptyDict), "has_drift", FALSE)
       /\ ~Get(Get(results, "trend_drift", EmptyDict), "has_trend_drift", FALSE)

NoDriftReportedUnlessAbsent(self, results) ==
    ~Get(results, "overall_drift_detected", TRUE)

\* The early return of create_alert_from_drift.
NoDriftReported(self, results) == ~Get(results, "overall_drift_detected", FALSE)

create_alert_from_drift(self, results, prediction_date) ==
    IF NoDriftReported(self, results) THEN None
    ELSE LET alert_type == _determine_alert_type(self, results)
         IN  [alert_type      |-> alert_type,
              severity        |-> _calculate_severity(results, alert_type),
              message         |-> _generate_message(alert_type, results),
              details         |-> results,
              recommendation  |-> RECOMMENDATIONS[alert_type],
              prediction_date |-> prediction_date,
              status          |-> "active"]

\* The monitoring_events row save_alert writes for an alert dictionary.
AlertEvent(a) ==
    [event_type     |-> "alert",
     event_severity |-> Get(a, "severity", "warning"),
     message        |-> Get(a, "message", "Alert created"),
     metadata       |->
        [alert_type      |-> a.alert_type,
         recommendation  |-> a.recommendation,
         prediction_date |-> a.prediction_date,
         drift_details   |->
            [anomalies          |-> Get(a.details, "anomalies", EmptyDict),
             distribution_drift |-> Get(a.details, "distribution_drift", EmptyDict),
             trend_drift        |-> Get(a.details, "trend_drift", EmptyDict)]]]

\* Drift dictionaries written by hand, with keys left out: those of the alert
\* manager's tests (test_phase3_integration.py 3.1 to 3.6, alerts.py __main__)
\* and two that leave out overall_drift_detected.
CallerResults ==
    {[overall_drift_detected |-> TRUE,
      anomalies |-> [has_anomalies |-> TRUE, anomaly_count |-> 3, max_z_score |-> 25],
      distribution_drift |-> [has_drift |-> FALSE, p_value |-> 870],
      trend_drift |-> [has_trend_drift |-> FALSE]],
     [overall_drift_detected |-> TRUE,
      anomalies |-> [has_anomalies |-> FALSE, anomaly_count |-> 0, max_z_score |-> 5],
      distribution_drift |-> [has_drift |-> TRUE, p_value |-> 20, mean_change_pct |-> 12],
      trend_drift |-> [has_trend_drift |-> FALSE]],
     [overall_drift_detected |-> TRUE,
      anomalies |-> [has_anomalies |-> TRUE, anomaly_count |-> 4, max_z_score |-> 31],
      distribution_drift |-> [has_drift |-> TRUE, p_value |-> 10, mean_change_pct |-> 20],
      trend_drift |-> [has_trend_drift |-> TRUE, trend_direction |-> "up",
                       trend_change_pct |-> 15]],
     [overall_drift_detected |-> FALSE,
      anomalies |-> [has_anomalies |-> FALSE, anomaly_count |-> 0, max_z_score |-> 5],
      distribution_drift |-> [has_drift |-> FALSE, p_value |-> 870],
      trend_drift |-> [has_trend_drift |-> FALSE]],
     [overall_drift_detected |-> TRUE,
      anomalies |-> [has_anomalies |-> TRUE, anomaly_count |-> 1, max_z_score |-> 20],
      distribution_drift |-> [has_drift |-> FALSE, p_value |-> 900],
      trend_drift |-> [has_trend_drift |-> FALSE]],
     [overall_drift_detected |-> TRUE,
      anomalies |-> [has_anomalies |-> FALSE, anomaly_count |-> 0, max_z_score |-> 5],
      distribution_drift |-> [has_drift |-> TRUE, p_value |-> 10, mean_change_pct |-> 20],
      trend_drift |-> [has_trend_drift |-> FALSE]],
     [overall_drift_detected |-> FALSE,
      anomalies |-> [has_anomalies |-> FALSE],
      distribution_drift |-> [has_drift |-> FALSE],
      trend_drift |-> [has_trend_drift |-> FALSE]],
     [overall_drift_detected |-> TRUE,
      anomalies |-> [has_anomalies |-> FALSE],
      distribution_drift |-> [has_drift |-> TRUE],
      trend_drift |-> [has_trend_drift |-> FALSE]],
     [overall_drift_detected |-> TRUE,
      distribution_drift |-> [has_drift |-> TRUE, p_value |-> 5],
      trend_drift |-> [has_trend_drift |-> TRUE]],
     [anomalies |-> [has_anomalies |-> TRUE, anomaly_count |-> 3, max_z_score |-> 31],
      distribution_drift |-> [has_drift |-> TRUE, p_value |-> 5],
      trend_drift |-> [has_trend_drift |-> FALSE]],
     [anomalies |-> [has_anomalies |-> FALSE],
      trend_drift |-> [has_trend_drift |-> FALSE]]}

PredictionDates == {"2025-11-14"}

MaxEvents == 1

AlertInit ==
    /\ manager \in {[anomaly_alert_threshold |-> anomaly_alert_threshold_default],
                    [anomaly_alert_threshold |-> 1]}
    /\ drift_results = None
    /\ alert = None
    /\ alert_id = 0
    /\ monitoring_events = <<>>
    /\ alert_call = None

AlertIdle ==
    /\ manager = [anomaly_alert_threshold |-> anomaly_alert_threshold_default]
    /\ drift_results = None
    /\ alert = None
    /\ alert_id = 0
    /\ monitoring_events = <<>>
    /\ alert_call = None

\* save_alert(a) with the store failing or not: the new table and the result.
save_alert(a, db_ok) ==
    IF a = None \/ ~db_ok
    THEN [events |-> monitoring_events, id |-> -1]
    ELSE [events |-> Append(monitoring_events, AlertEvent(a)),
          id     |-> Len(monitoring_events) + 1]

\* A test or caller hands a dictionary to create_alert_from_drift.
CreateAlert ==
    \E d \in CallerResults \cup CheckAllResults, date \in PredictionDates :
        /\ Len(monitoring_events) < MaxEvents
        /\ drift_results' = d
        /\ alert' = create_alert_from_drift(manager, d, date)
        /\ alert_id' = 0
        /\ UNCHANGED <<manager, monitoring_events, alert_call>>
        /\ UNCHANGED <<detVars, thrVars, schedVars, trigVars, now, sessVars, predVars, fbVars>>

\* The caller saves what create_alert_from_drift returned, without a None test.
SaveAlert ==
    \E db_ok \in BOOLEAN :
        /\ drift_results # None
        /\ alert_id = 0
        /\ Len(monitoring_events) < MaxEvents
        /\ monitoring_events' = save_alert(alert, db_ok).events
        /\ alert_id' = save_alert(alert, db_ok).id
        /\ UNCHANGED <<manager, drift_results, alert, alert_call>>
        /\ UNCHANGED <<detVars, thrVars, schedVars, trigVars, now, sessVars, predVars, fbVars>>

\* The monitoring run of generate_sample_data.py: check_all_drifts on the
\* recent window, then an alert created and saved when drift was detected.
MonitorWindow ==
    \E r \in CheckAllResults, date \in PredictionDates, db_ok \in BOOLEAN :
        /\ Len(monitoring_events) < MaxEvents
        /\ drift_results' = r
        /\ IF r.overall_drift_detected
           THEN /\ alert' = create_alert_from_drift(manager, r, date)
                /\ IF alert' # None
                   THEN /\ monitoring_events' = save_alert(alert', db_ok).events
                        /\ alert_id' = save_alert(alert', db_ok).id
                   ELSE /\ alert_id' = 0
                        /\ UNCHANGED monitoring_events
           ELSE /\ alert' = None
                /\ alert_id' = 0
                /\ UNCHANGED monitoring_events
        /\ UNCHANGED <<manager, alert_call>>
        /\ UNCHANGED <<detVars, thrVars, schedVars, trigVars, now, sessVars, predVars, fbVars>>

AlertNext == CreateAlert \/ SaveAlert \/ MonitorWindow

(***************************************************************************)
(* The clock, and SQL NULL.  A nullable column holds <<>> (NULL) or <<v>>. *)
(***************************************************************************)
NULL == <<>>

MaxTime == 2

\* Time passes between two calls.
Tick ==
    /\ now < MaxTime
    /\ now' = now + 1

(***************************************************************************)
(* The queries of AlertManager (src/src/monitoring/alerts.py) over the     *)
(* rows PredictionsDB.save_monitoring_event stored.  The metadata column   *)
(* is TEXT: NULL or <<text>>.  A query's list is modelled as the set of    *)
(* its elements.                                                           *)
(***************************************************************************)
MaxStoredEvents == 2

EventTypeArgs == {"alert", "drift_check"}
SeverityArgs == {"critical", "warning"}

AlertMetadata ==
    [alert_type |-> "anomaly", recommendation |-> "Check data quality",
     prediction_date |-> "2025-11-14"]

\* Texts a caller of save_monitoring_event stores in metadata: what
\* save_alert dumps, an empty string, text that is no JSON, and JSON that
\* is no object.
MetadataArgs == {NULL, <<"">>, <<"{alert}">>, <<"not json">>, <<"[]">>, <<"null">>}

\* json.loads(text): the value, or the JSONDecodeError it raises.
json_loads(text) ==
    CASE text = "{alert}" -> [kind |-> "object", value |-> AlertMetadata]
      [] text = "[]"      -> [kind |-> "array"]
      [] text = "null"    -> [kind |-> "null"]
      [] OTHER            -> [kind |-> "JSONDecodeError"]

\* json.loads(event['metadata']) if event['metadata'] else {}
Metadata(event) ==
    IF event.metadata = NULL \/ event.metadata = <<"">>
    THEN [kind |-> "object", value |-> EmptyDict]
    ELSE json_loads(event.metadata[1])

\* INSERT INTO monitoring_events (event_type, event_severity, message,
\* metadata) VALUES (?, ?, ?, ?)
save_monitoring_event(rows, event_type, event_severity, message, metadata, db_ok) ==
    IF ~db_ok THEN [rows |-> rows, result |-> -1]
    ELSE [rows |-> Append(rows, [id             |-> Len(rows) + 1,
                                 event_type     |-> event_type,
                                 event_severity |-> event_severity,
                                 message        |-> message,
                                 metadata       |-> metadata,
                                 created_at     |-> now]),
          result |-> Len(rows) + 1]

\* SELECT ... FROM monitoring_events WHERE DATE(created_at) >=
\* DATE('now', '-' || ? || ' days') [AND event_type = ?]
\* [AND event_severity = ?]; severity NULL is no filter.
get_monitoring_events(rows, days, event_type, severity) ==
    {rows[i] : i \in {j \in 1..Len(rows) :
        /\ rows[j].created_at >= now - days
        /\ rows[j].event_type = event_type
        /\ severity # NULL => rows[j].event_severity = severity[1]}}

\* metadata.get(key)
MetadataGet(metadata, key) ==
    IF key \in DOMAIN metadata THEN <<metadata[key]>> ELSE NULL

\* The dictionary appended for an event whose metadata parsed to a dict.
AlertRow(event) ==
    [id              |-> event.id,
     severity        |-> event.event_severity,
     message         |-> event.message,
     alert_type      |-> MetadataGet(Metadata(event).value, "alert_type"),
     recommendation  |-> MetadataGet(Metadata(event).value, "recommendation"),
     created_at      |-> event.created_at,
     prediction_date |-> MetadataGet(Metadata(event).value, "prediction_date")]

\* except (json.JSONDecodeError, KeyError): continue
Skipped(event) == Metadata(event).kind = "JSONDecodeError"

\* metadata.get on a value that is no dict raises AttributeError, which
\* the handler inside the loop does not catch.
Escapes(event) == Metadata(event).kind \notin {"object", "JSONDecodeError"}

\* The loop of get_active_alerts and get_alert_history over the events:
\* an exception that leaves the loop reaches `except Exception: return []`.
AlertsOf(events, db_ok) ==
    IF ~db_ok \/ \E e \in events : Escapes(e)
    THEN {}
    ELSE {AlertRow(e) : e \in {x \in events : ~Skipped(x)}}

get_active_alerts(rows, days, db_ok) ==
    AlertsOf(get_monitoring_events(rows, days, "alert", NULL), db_ok)

get_alert_history(rows, days, severity, db_ok) ==
    AlertsOf(get_monitoring_events(rows, days, "alert", severity), db_ok)

get_alert_summary(rows, days, db_ok) ==
    LET alerts == get_active_alerts(rows, days, db_ok)
        types == {a.alert_type : a \in alerts}
    IN  [total_alerts   |-> Cardinality(alerts),
         critical_count |->
             Cardinality({a \in alerts : a.severity = "critical"}),
         warning_count  |->
             Cardinality({a \in alerts : a.severity = "warning"}),
         info_count     |->
             Cardinality({a \in alerts :
                             a.severity \notin {"critical", "warning"}}),
         by_type        |->
             [t \in types |->
                 Cardinality({a \in alerts : a.alert_type = t})]]

DaysWindowArgs == {0, 7}

SaveMonitoringEvent ==
    \E event_type \in EventTypeArgs, severity \in SeverityArgs,
       metadata \in MetadataArgs, db_ok \in BOOLEAN :
        /\ Len(monitoring_events) < MaxStoredEvents
        /\ monitoring_events' =
               save_monitoring_event(monitoring_events, event_type, severity,
                                     "Alert created", metadata, db_ok).rows
        /\ UNCHANGED <<manager, drift_results, alert, alert_id, alert_call>>

GetActiveAlerts ==
    \E days \in DaysWindowArgs, db_ok \in BOOLEAN :
        /\ alert_call' = [op |-> "get_active_alerts", days |-> days,
                          severity |-> NULL, db_ok |-> db_ok,
                          alerts |-> get_active_alerts(monitoring_events,
                                                       days, db_ok),
                          summary |-> None]
        /\ UNCHANGED <<manager, drift_results, alert, alert_id, monitoring_events>>

GetAlertSummary ==
    \E days \in DaysWindowArgs, db_ok \in BOOLEAN :
        /\ alert_call' = [op |-> "get_alert_summary", days |-> days,
                          severity |-> NULL, db_ok |-> db_ok,
                          alerts |-> get_active_alerts(monitoring_events,
                                                       days, db_ok),
                          summary |-> get_alert_summary(monitoring_events,
                                                        days, db_ok)]
        /\ UNCHANGED <<manager, drift_results, alert, alert_id, monitoring_events>>

GetAlertHistory ==
    \E days \in DaysWindowArgs, db_ok \in BOOLEAN,
       severity \in {NULL} \cup {<<v>> : v \in SeverityArgs} :
        /\ alert_call' = [op |-> "get_alert_history", days |-> days,
                          severity |-> severity, db_ok |-> db_ok,
                          alerts |-> get_alert_history(monitoring_events,
                                                       days, severity, db_ok),
                          summary |-> None]
        /\ UNCHANGED <<manager, drift_results, alert, alert_id, monitoring_events>>

QueryNext ==
    \/ /\ SaveMonitoringEvent
       /\ UNCHANGED <<detVars, thrVars, schedVars, trigVars, now, sessVars, predVars, fbVars>>
    \/ /\ GetActiveAlerts
       /\ UNCHANGED <<detVars, thrVars, schedVars, trigVars, now, sessVars, predVars, fbVars>>
    \/ /\ GetAlertSummary
       /\ UNCHANGED <<detVars, thrVars, schedVars, trigVars, now, sessVars, predVars, fbVars>>
    \/ /\ GetAlertHistory
       /\ UNCHANGED <<detVars, thrVars, schedVars, trigVars, now, sessVars, predVars, fbVars>>
    \/ /\ Tick
       /\ UNCHANGED <<detVars, thrVars, schedVars, trigVars, alertVars, sessVars, predVars, fbVars>>

(***************************************************************************)
(* FeedbackDB.retraining_log (src/src/monitoring/feedback_db.py)           *)
(***************************************************************************)
MaxSessions == 2

TriggerReasons == {"Feedback: 60, Drift: 0.00", "manual"}
Improvements == {0, 5}
MetricsTexts == {"{}", "{score: 1}"}

\* INSERT INTO retraining_log (...) VALUES (?, ?, ?, ?, 'pending')
NewSession(trigger_reason, feedback_count, drift_score, accuracy_drop) ==
    [trigger_reason    |-> trigger_reason,
     feedback_count    |-> feedback_count,
     drift_score       |-> drift_score,
     accuracy_drop     |-> accuracy_drop,
     model_improvement |-> NULL,
     started_at        |-> now,
     completed_at      |-> NULL,
     status            |-> "pending",
     metrics_before    |-> NULL,
     metrics_after     |-> NULL]

\* log_retraining_start: the table afterwards and the id returned.
log_retraining_start(log, trigger_reason, feedback_count, drift_score, accuracy_drop, db_ok) ==
    IF db_ok
    THEN [log |-> Append(log, NewSession(trigger_reason, feedback_count,
                                         drift_score, accuracy_drop)),
          id  |-> Len(log) + 1]
    ELSE [log |-> log, id |-> -1]

\* The SET clause of log_retraining_complete applied to one row.
CompletedRow(row, model_improvement, metrics_before, metrics_after) ==
    [row EXCEPT !.status = "completed",
                !.completed_at = <<now>>,
                !.model_improvement = <<model_improvement>>,
                !.metrics_before = <<metrics_before>>,
                !.metrics_after = <<metrics_after>>]

\* UPDATE retraining_log SET ... WHERE id = ?
log_retraining_complete(log, retraining_id, model_improvement, metrics_before, metrics_after, db_ok) ==
    IF db_ok
    THEN [i \in DOMAIN log |->
            IF i = retraining_id
            THEN CompletedRow(log[i], model_improvement, metrics_before,
                              metrics_after)
            ELSE log[i]]
    ELSE log

SessInit == retraining_log = <<>>

LogRetrainingStart ==
    \E reason \in TriggerReasons, db_ok \in BOOLEAN :
        /\ Len(retraining_log) < MaxSessions
        /\ retraining_log' =
              log_retraining_start(retraining_log, reason, 60, 0, 0, db_ok).log

\* A caller passes any id: one start returned, -1 after a failed start, or
\* one that was never issued.
LogRetrainingComplete ==
    \E id \in {-1} \cup (1 .. MaxSessions), imp \in Improvements,
       ma \in MetricsTexts, db_ok \in BOOLEAN :
        retraining_log' =
            log_retraining_complete(retraining_log, id, imp, "{baseline: v1.0}",
                                    ma, db_ok)

SessNext ==
    \/ /\ LogRetrainingStart
       /\ UNCHANGED <<detVars, thrVars, schedVars, trigVars, alertVars, now, predVars, fbVars>>
    \/ /\ LogRetrainingComplete
       /\ UNCHANGED <<detVars, thrVars, schedVars, trigVars, alertVars, now, predVars, fbVars>>
    \/ /\ Tick
       /\ UNCHANGED <<detVars, thrVars, schedVars, trigVars, alertVars, sessVars, predVars, fbVars>>

(***************************************************************************)
(* PredictionsDB.predictions (src/src/monitoring/predictions_db.py)        *)
(* REAL columns hold NULL or <<v>>; a Python None argument binds as NULL.  *)
(***************************************************************************)
MaxSaves == 2

PredictionDateArgs == {"2025-11-14", "2025-11-15"}
PredictedArgs == {NULL, <<250>>}
ArchivedActualArgs == {NULL, <<245>>}
SavingsActualArgs == {NULL, <<0>>}

\* UNIQUE(prediction_date): the rows a new row for this date conflicts with.
ConflictingNone(rows, prediction_date) == {}

Conflicting(rows, prediction_date) ==
    {r \in rows : r.prediction_date = prediction_date}

\* An upsert that updates the row in place: the id is kept and an omitted
\* actual keeps the stored one.
save_prediction_upsert(rows, seq, prediction_date, archived_gb_predicted, savings_gb_predicted, archived_gb_actual, savings_gb_actual, db_ok) ==
    IF \/ ~db_ok
       \/ archived_gb_predicted = NULL
       \/ savings_gb_predicted = NULL
    THEN [rows |-> rows, seq |-> seq, result |-> -1]
    ELSE IF Conflicting(rows, prediction_date) = {}
    THEN [rows |-> rows \cup
                     {[id                    |-> seq + 1,
                       prediction_date       |-> prediction_date,
                       archived_gb_predicted |-> archived_gb_predicted,
                       savings_gb_predicted  |-> savings_gb_predicted,
                       archived_gb_actual    |-> archived_gb_actual,
                       savings_gb_actual     |-> savings_gb_actual,
                       created_at            |-> now,
                       updated_at            |-> now]},
          seq |-> seq + 1,
          result |-> seq + 1]
    ELSE [rows |->
            {IF r.prediction_date = prediction_date
             THEN [r EXCEPT
                     !.archived_gb_predicted = archived_gb_predicted,
                     !.savings_gb_predicted = savings_gb_predicted,
                     !.archived_gb_actual =
                         IF archived_gb_actual # NULL
                         THEN archived_gb_actual ELSE r.archived_gb_actual,
                     !.savings_gb_actual =
                         IF savings_gb_actual # NULL
                         THEN savings_gb_actual ELSE r.savings_gb_actual,
                     !.updated_at = now]
             ELSE r : r \in rows},
          seq |-> seq + 1,
          result |-> seq + 1]

\* INSERT OR REPLACE INTO predictions (...) VALUES (?, ?, ?, ?, ?,
\* CURRENT_TIMESTAMP): a NULL in a NOT NULL column raises, the exception
\* handler returns -1; otherwise the conflicting row is deleted and the new
\* row takes the next AUTOINCREMENT id and the default created_at.
save_prediction(rows, seq, prediction_date, archived_gb_predicted, savings_gb_predicted, archived_gb_actual, savings_gb_actual, db_ok) ==
    IF \/ ~db_ok
       \/ archived_gb_predicted = NULL
       \/ savings_gb_predicted = NULL
    THEN [rows |-> rows, seq |-> seq, result |-> -1]
    ELSE [rows |-> (rows \ Conflicting(rows, prediction_date)) \cup
                     {[id                    |-> seq + 1,
                       prediction_date       |-> prediction_date,
                       archived_gb_predicted |-> archived_gb_predicted,
                       savings_gb_predicted  |-> savings_gb_predicted,
                       archived_gb_actual    |-> archived_gb_actual,
                       savings_gb_actual     |-> savings_gb_actual,
                       created_at            |-> now,
                       updated_at            |-> now]},
          seq |-> seq + 1,
          result |-> seq + 1]

COALESCE_first(x, y) == x

COALESCE(x, y) == IF x # NULL THEN x ELSE y

\* UPDATE predictions SET archived_gb_actual = COALESCE(?, archived_gb_actual),
\* savings_gb_actual = COALESCE(?, savings_gb_actual),
\* updated_at = CURRENT_TIMESTAMP WHERE prediction_date = ?
update_actual_value(rows, prediction_date, archived_gb_actual, savings_gb_actual, db_ok) ==
    IF ~db_ok
    THEN [rows |-> rows, result |-> FALSE]
    ELSE [rows |->
            {IF r.prediction_date = prediction_date
             THEN [r EXCEPT
                     !.archived_gb_actual =
                         COALESCE(archived_gb_actual, r.archived_gb_actual),
                     !.savings_gb_actual =
                         COALESCE(savings_gb_actual, r.savings_gb_actual),
                     !.updated_at = now]
             ELSE r : r \in rows},
          result |-> TRUE]

\* The call log entry: repeat says that the call before was the same
\* operation with the same arguments and did not fail.
Call(op, args, result) ==
    [op |-> op, args |-> args, result |-> result,
     repeat |-> /\ pred_call # None
                /\ pred_call.op = op
                /\ pred_call.args = args
                /\ pred_call.result # IF op = "save_prediction"
                                      THEN -1 ELSE FALSE]

PredInit ==
    /\ predictions = {}
    /\ pred_seq = 0
    /\ pred_call = None

SavePrediction ==
    \E d \in PredictionDateArgs, ap \in PredictedArgs,
       aa \in ArchivedActualArgs, sa \in SavingsActualArgs,
       db_ok \in BOOLEAN :
        LET out == save_prediction(predictions, pred_seq, d, ap, <<125>>,
                                   aa, sa, db_ok)
        IN /\ pred_seq < MaxSaves
           /\ predictions' = out.rows
           /\ pred_seq' = out.seq
           /\ pred_call' = Call("save_prediction",
                                <<d, ap, <<125>>, aa, sa>>, out.result)

UpdateActual ==
    \E d \in PredictionDateArgs, aa \in ArchivedActualArgs,
       sa \in SavingsActualArgs, db_ok \in BOOLEAN :
        LET out == update_actual_value(predictions, d, aa, sa, db_ok)
        IN /\ predictions' = out.rows
           /\ pred_call' = Call("update_actual_value", <<d, aa, sa>>,
                                out.result)
           /\ UNCHANGED pred_seq

PredNext ==
    \/ /\ SavePrediction
       /\ UNCHANGED <<detVars, thrVars, schedVars, trigVars, alertVars, now, sessVars, fbVars>>
    \/ /\ UpdateActual
       /\ UNCHANGED <<detVars, thrVars, schedVars, trigVars, alertVars, now, sessVars, fbVars>>
    \/ /\ Tick
       /\ UNCHANGED <<detVars, thrVars, schedVars, trigVars, alertVars, sessVars, predVars, fbVars>>

(***************************************************************************)
(* FeedbackDB.feedback (src/src/monitoring/feedback_db.py)                 *)
(***************************************************************************)
MaxFeedback == 2

\* feedback_status is free text; a Python None binds as NULL.
StatusArgs == {NULL, <<"correct">>, <<"incorrect">>, <<"uncertain">>,
               <<"Correct">>}
ActualValueArgs == {240, 250}
DaysArgs == {0, 30}

\* INSERT INTO feedback (...) VALUES (?, ?, ?, ?, ?, ?): feedback_status is
\* NOT NULL, created_at defaults to CURRENT_TIMESTAMP; -1 on any exception.
submit_feedback(rows, prediction_id, predicted_value, actual_value, feedback_status, db_ok) ==
    IF ~db_ok \/ feedback_status = NULL
    THEN [rows |-> rows, id |-> -1]
    ELSE [rows |-> Append(rows, [prediction_id   |-> prediction_id,
                                 predicted_value |-> predicted_value,
                                 actual_value    |-> actual_value,
                                 feedback_status |-> feedback_status[1],
                                 created_at      |-> now]),
          id |-> Len(rows) + 1]

\* WHERE DATE(created_at) >= DATE('now', '-' || ? || ' days')
InWindow(rows, days) ==
    {i \in DOMAIN rows : rows[i].created_at >= now - days}

\* SELECT COUNT(*) ... WHERE ...
get_feedback_count(rows, days) == Cardinality(InWindow(rows, days))

\* GROUP BY feedback_status: the statuses of the result's rows.
Groups(rows, days) == {rows[i].feedback_status : i \in InWindow(rows, days)}

\* COUNT(*) of one group.
GroupCount(rows, days, status) ==
    Cardinality({i \in InWindow(rows, days) :
                    rows[i].feedback_status = status})

RECURSIVE SumOver(_, _)
SumOver(S, f) ==
    IF S = {} THEN 0
    ELSE LET x == CHOOSE y \in S : TRUE
         IN f[x] + SumOver(S \ {x}, f)

\* df[df['feedback_status'] == status]['count'].sum()
CountOf(rows, days, status) ==
    IF status \in Groups(rows, days) THEN GroupCount(rows, days, status) ELSE 0

\* df['count'].sum()
Total(rows, days) ==
    SumOver(Groups(rows, days),
            [g \in Groups(rows, days) |-> GroupCount(rows, days, g)])

\* SUM(ABS(actual_value - predicted_value)) of one group.
GroupErrorSum(rows, days, status) ==
    LET members == {i \in InWindow(rows, days) :
                       rows[i].feedback_status = status}
    IN SumOver(members,
               [i \in members |->
                   Abs(rows[i].actual_value - rows[i].predicted_value)])

RECURSIVE SumOfAverages(_, _, _)
\* The sum over the groups of AVG(ABS(...)), as an exact fraction.
SumOfAverages(rows, days, groups) ==
    IF groups = {} THEN [num |-> 0, den |-> 1]
    ELSE LET g == CHOOSE y \in groups : TRUE
             rest == SumOfAverages(rows, days, groups \ {g})
             n == GroupCount(rows, days, g)
         IN [num |-> GroupErrorSum(rows, days, g) * rest.den + rest.num * n,
             den |-> n * rest.den]

\* df['avg_error'].mean()
AvgError(rows, days) ==
    LET sum == SumOfAverages(rows, days, Groups(rows, days))
    IN [num |-> sum.num,
        den |-> sum.den * Cardinality(Groups(rows, days))]

AccuracyRatio(correct, total) ==
    IF total > 0 THEN [num |-> correct, den |-> total]
    ELSE [num |-> 0, den |-> 1]

\* (correct / total * 100) if total > 0 else 0.0
Accuracy(correct, total) ==
    IF total > 0 THEN [num |-> correct * 100, den |-> total]
    ELSE [num |-> 0, den |-> 1]

get_feedback_accuracy(rows, days) ==
    IF Groups(rows, days) = {}
    THEN [total_feedback     |-> 0,
          correct_feedback   |-> 0,
          incorrect_feedback |-> 0,
          uncertain_feedback |-> 0,
          accuracy           |-> [num |-> 0, den |-> 1],
          avg_error          |-> [num |-> 0, den |-> 1]]
    ELSE [total_feedback     |-> Total(rows, days),
          correct_feedback   |-> CountOf(rows, days, "correct"),
          incorrect_feedback |-> CountOf(rows, days, "incorrect"),
          uncertain_feedback |-> CountOf(rows, days, "uncertain"),
          accuracy           |-> Accuracy(CountOf(rows, days, "correct"),
                                          Total(rows, days)),
          avg_error          |-> AvgError(rows, days)]

FbInit ==
    /\ feedback = <<>>
    /\ feedback_call = None

SubmitFeedback ==
    \E st \in StatusArgs, actual \in ActualValueArgs, db_ok \in BOOLEAN :
        /\ Len(feedback) < MaxFeedback
        /\ feedback' = submit_feedback(feedback, 1, 250, actual, st,
                                       db_ok).rows
        /\ UNCHANGED feedback_call

GetFeedbackAccuracy ==
    \E days \in DaysArgs :
        /\ feedback_call' = [op |-> "get_feedback_accuracy", days |-> days,
                             result |-> get_feedback_accuracy(feedback, days)]
        /\ UNCHANGED feedback

FbNext ==
    \/ /\ SubmitFeedback
       /\ UNCHANGED <<detVars, thrVars, schedVars, trigVars, alertVars, now, sessVars, predVars>>
    \/ /\ GetFeedbackAccuracy
       /\ UNCHANGED <<detVars, thrVars, schedVars, trigVars, alertVars, now, sessVars, predVars>>
    \/ /\ Tick
       /\ UNCHANGED <<detVars, thrVars, schedVars, trigVars, alertVars, sessVars, predVars, fbVars>>

(***************************************************************************)
(* RetainingTriggerManager.check_retraining_conditions                     *)
(* (src/src/monitoring/retraining_trigger.py)                              *)
(***************************************************************************)
\* detect_drift_ks_test of a detector that was given no baseline
KsNoBaseline ==
    [has_drift |-> FALSE, p_value |-> 1000, mean_change_pct |-> 0,
     error |-> "No baseline set for comparison"]

ManagerDriftScoreAnySize(samples, drift_result) ==
    IF Get(drift_result, "has_drift", FALSE)
    THEN 1000 - Get(drift_result, "p_value", 0)
    ELSE 0

\* drift_score: 0 unless the test ran on at least 10 samples and reports
\* drift, then 1 - p_value.
ManagerDriftScore(samples, drift_result) ==
    IF samples >= 10 /\ Get(drift_result, "has_drift", FALSE)
    THEN IF Get(drift_result, "p_value", 0) <= 1000
         THEN 1000 - Get(drift_result, "p_value", 0)
         ELSE 0
    ELSE 0

RecentAccuracyOrDefault(feedback_metrics) ==
    IF feedback_metrics.total_feedback = 0
    THEN 850
    ELSE (feedback_metrics.accuracy.num * 10) \div feedback_metrics.accuracy.den

\* feedback_metrics.get('accuracy', 85.0) / 100 in thousandths; the feedback
\* tables of this model make the quotient whole.
RecentAccuracy(feedback_metrics) ==
    (feedback_metrics.accuracy.num * 10) \div feedback_metrics.accuracy.den

check_retraining_conditions(rows, samples, drift_result) ==
    LET feedback_count == get_feedback_count(rows, 7)
        feedback_metrics == get_feedback_accuracy(rows, 30)
        drift_score == ManagerDriftScore(samples, drift_result)
        ev == evaluate(DefaultTrigger, feedback_count, drift_score,
                       RecentAccuracy(feedback_metrics), 880)
    IN [should_retrain |-> ev.should_retrain,
        reason         |-> ev.reason,
        conditions_met |-> ev.conditions_met,
        metrics        |-> [feedback_count    |-> feedback_count,
                            drift_score       |-> drift_score,
                            accuracy_drop     |-> ev.accuracy_drop,
                            recent_accuracy   |-> RecentAccuracy(feedback_metrics),
                            baseline_accuracy |-> 880],
        trigger_details |-> [condition_feedback |-> ev.condition_feedback,
                             condition_drift    |-> ev.condition_drift,
                             condition_accuracy |-> ev.condition_accuracy]]

\* if not self.feedback_db or not self.predictions_db
NotConfigured ==
    [should_retrain |-> FALSE,
     reason         |-> <<"Database connections not configured">>,
     error          |-> TRUE]

\* The manager's detector: none was supplied, its call (or the query before
\* it) raises, or it returns a result.
DetectorCases == {"none", "raises", "runs"}

\* Numbers of rows the predictions query returns (LIMIT 30).
SampleCounts == {0, 9, 10, 30}

\* What detect_drift_ks_test can return.
KsResults ==
    {KsNoBaseline, KsInsufficient} \cup {KsResult(st[1], st[2]) : st \in KsStats}

\* check_retraining_conditions of a manager built with or without its
\* stores and its detector; without a result drift_score stays 0.0.
manager_check(has_feedback_db, has_predictions_db, detector, rows, samples, drift_result) ==
    IF ~has_feedback_db \/ ~has_predictions_db
    THEN NotConfigured
    ELSE check_retraining_conditions(
             rows, samples,
             IF detector = "runs" THEN drift_result ELSE EmptyDict)

ManagerCheck ==
    \E has_feedback_db \in BOOLEAN, has_predictions_db \in BOOLEAN,
       detector \in DetectorCases, samples \in SampleCounts,
       drift_result \in KsResults :
        /\ evalArgs' = [has_feedback_db    |-> has_feedback_db,
                        has_predictions_db |-> has_predictions_db,
                        detector           |-> detector,
                        samples            |-> samples,
                        drift_result       |-> drift_result]
        /\ evaluation' = manager_check(has_feedback_db, has_predictions_db,
                                       detector, feedback, samples,
                                       drift_result)
        /\ UNCHANGED trigger

ManagerNext ==
    /\ ManagerCheck
    /\ UNCHANGED <<detVars, thrVars, schedVars, alertVars, now, sessVars,
                   predVars, fbVars>>

(***************************************************************************)
(* ModelRetrainer.retrain (src/src/ml/retrain_model.py)                    *)
(***************************************************************************)
\* How a run of the pipeline ends: the constructor raises; a step before
\* the session is logged raises; the model file cannot be written after
\* the session was logged; or every step succeeds.
RetrainOutcomes == {"raised", "failed_early", "failed_late", "success"}

\* Step 6: log_retraining_start and log_retraining_complete, back to back.
LogSession(log, feedback_count, drift_score, db_ok) ==
    LET started == log_retraining_start(log, "Feedback: n, Drift: d",
                                        feedback_count, drift_score, 0, db_ok)
    IN log_retraining_complete(started.log, started.id, 0, "{baseline: v1.0}",
                               "{}", db_ok)

\* retrain(): the retraining_log afterwards and the status of the result.
retrain(log, feedback_count, drift_score, outcome, db_ok) ==
    IF outcome = "failed_early"
    THEN [log |-> log, status |-> "failed"]
    ELSE [log    |-> LogSession(log, feedback_count, drift_score, db_ok),
          status |-> IF outcome = "success" THEN "success" ELSE "failed"]

(***************************************************************************)
(* RetrainingScheduler (src/src/ml/retraining_scheduler.py)                *)
(***************************************************************************)
MaxStarts == 2
MaxChecks == 2

\* n feedback rows of one day, the first k of them 'correct'.
FeedbackTable(n, k) ==
    [i \in 1 .. n |->
        [prediction_id   |-> i,
         predicted_value |-> 250,
         actual_value    |-> IF i <= k THEN 250 ELSE 240,
         feedback_status |-> IF i <= k THEN "correct" ELSE "incorrect",
         created_at      |-> 0]]

\* The feedback the scheduler finds: none, plenty and accurate, plenty and
\* inaccurate.
SchedFeedbackTables ==
    {<<>>, FeedbackTable(60, 57), FeedbackTable(60, 48)}

DetectorWithBaseline(samples) == KsResult(5, 20)

\* drift_detector = DriftDetector(): the detector of a check is new, and
\* nothing sets a baseline on it before the test.
FreshDetector(samples) ==
    IF samples < min_samples_default THEN KsInsufficient ELSE KsNoBaseline

\* What a check reads and writes besides the feedback and the clock.
SchedState ==
    [last_check     |-> last_check,
     last_retrain   |-> last_retrain,
     checks_log     |-> checks_log,
     history_log    |-> history_log,
     failures_log   |-> failures_log,
     retraining_log |-> retraining_log,
     retrain_calls  |-> retrain_calls]

\* A line appended to a log file; a failure to write is swallowed.
AppendLine(file, line, log_ok) == IF log_ok THEN Append(file, line) ELSE file

RetrainSucceededAlways(result) == TRUE

\* if result.get('status') == 'success'
RetrainSucceeded(result) == result.status = "success"

_execute_retraining(st, eval_result, outcome, db_ok, log_ok) ==
    IF outcome = "raised"
    THEN [st EXCEPT !.retrain_calls = @ + 1]
    ELSE LET result == retrain(st.retraining_log,
                               eval_result.metrics.feedback_count,
                               eval_result.metrics.drift_score, outcome, db_ok)
         IN IF RetrainSucceeded(result)
            THEN [st EXCEPT
                    !.retrain_calls = @ + 1,
                    !.retraining_log = result.log,
                    !.last_retrain = <<now>>,
                    !.history_log =
                        AppendLine(@, [timestamp |-> now,
                                       status |-> "success"], log_ok)]
            ELSE [st EXCEPT
                    !.retrain_calls = @ + 1,
                    !.retraining_log = result.log,
                    !.failures_log =
                        AppendLine(@, [timestamp |-> now,
                                       status |-> "failed"], log_ok)]

ShouldExecuteIgnoringSwitch(eval_result, auto) == eval_result.should_retrain

ShouldExecuteOnce(eval_result, auto) ==
    eval_result.should_retrain /\ auto /\ last_retrain = NULL

\* if should_retrain: ... if self.auto_retrain:
ShouldExecute(eval_result, auto) == eval_result.should_retrain /\ auto

HandledNever(exception) == FALSE

\* except Exception as e: logger.error(...)
Handled(exception) == TRUE

\* _check_conditions after check_retraining_conditions returned eval_result;
\* an exception while opening or querying the database ends the check
\* before anything is recorded.
_check_conditions(st, eval_result, storage_ok, outcome, db_ok, log_ok) ==
    IF ~storage_ok
    THEN st
    ELSE LET checked == [st EXCEPT !.last_check = <<now>>]
             acted ==
                 IF ShouldExecute(eval_result, auto_retrain)
                 THEN _execute_retraining(checked, eval_result, outcome,
                                          db_ok, log_ok)
                 ELSE checked
         IN [acted EXCEPT
               !.checks_log =
                   AppendLine(@, [timestamp      |-> now,
                                  should_retrain |-> eval_result.should_retrain,
                                  conditions_met |-> eval_result.conditions_met],
                              log_ok)]

\* The record of a call: every call flips the bit.
Called(op, check, result) ==
    [op     |-> op,
     flip   |-> IF sched_call = None THEN FALSE ELSE ~sched_call.flip,
     check  |-> check,
     result |-> result]

\* How one run of _check_conditions went: who ran it, whether the
\* evaluation returned, what it decided, how _execute_retraining ended
\* ("none" when it was not called), and whether an exception left the run.
CheckRun(by, eval_result, storage_ok, outcome, st) ==
    LET invoked == st.retrain_calls > retrain_calls
    IN [by             |-> by,
        evaluation     |-> IF storage_ok THEN eval_result ELSE None,
        evaluated      |-> storage_ok,
        should_retrain |-> storage_ok /\ eval_result.should_retrain,
        retraining     |-> IF invoked THEN outcome ELSE "none",
        escaped        |-> \/ ~storage_ok /\ ~Handled("StorageError")
                           \/ /\ invoked
                              /\ outcome = "raised"
                              /\ ~Handled("RetrainingError")]

\* One run of _check_conditions by whoever calls it.  The scheduler's
\* DriftDetector is new and has no baseline.  The clock moves on by elapsed
\* before the next call.
RunCheck(op, by, elapsed) ==
    \E eval_result \in {check_retraining_conditions(
                            feedback, Cardinality(predictions),
                            FreshDetector(Cardinality(predictions)))} :
      \E storage_ok \in BOOLEAN, outcome \in RetrainOutcomes,
         db_ok \in BOOLEAN, log_ok \in BOOLEAN :
        \E st \in {_check_conditions(SchedState, eval_result, storage_ok,
                                     outcome, db_ok, log_ok)} :
           /\ checks' = checks + 1
           /\ last_check' = st.last_check
           /\ last_retrain' = st.last_retrain
           /\ checks_log' = st.checks_log
           /\ history_log' = st.history_log
           /\ failures_log' = st.failures_log
           /\ retraining_log' = st.retraining_log
           /\ retrain_calls' = st.retrain_calls
           /\ sched_call' = Called(op, CheckRun(by, eval_result, storage_ok,
                                                outcome, st), None)
           /\ now' = now + elapsed

AlreadyRunningNever(sched) == FALSE

\* if self.scheduler is not None
AlreadyRunning(sched) == sched # 0

SchedInit ==
    /\ scheduler = 0
    /\ jobs = {}
    /\ auto_retrain \in BOOLEAN
    /\ last_check = NULL
    /\ last_retrain = NULL
    /\ starts = 0
    /\ checks = 0
    /\ checks_log = <<>>
    /\ history_log = <<>>
    /\ failures_log = <<>>
    /\ sched_call = None
    /\ retrain_calls = 0

SchedIdle ==
    /\ scheduler = 0
    /\ jobs = {}
    /\ auto_retrain = TRUE
    /\ last_check = NULL
    /\ last_retrain = NULL
    /\ starts = 0
    /\ checks = 0
    /\ checks_log = <<>>
    /\ history_log = <<>>
    /\ failures_log = <<>>
    /\ sched_call = None
    /\ retrain_calls = 0

\* start(): warn and return when a scheduler exists; otherwise create one,
\* arm the interval job, and run the first check before returning.
Start ==
    /\ starts < MaxStarts
    /\ starts' = starts + 1
    /\ IF AlreadyRunning(scheduler)
       THEN /\ sched_call' = Called("start", None, None)
            /\ UNCHANGED <<scheduler, jobs, last_check, last_retrain, checks,
                           checks_log, history_log, failures_log,
                           retraining_log, retrain_calls, now>>
       ELSE /\ checks < MaxChecks
            /\ scheduler' = starts + 1
            /\ jobs' = jobs \cup {starts + 1}
            /\ RunCheck("start", "start", 0)
    /\ UNCHANGED auto_retrain

\* if self.scheduler is not None
StopApplies(sched) == sched # 0

\* stop(): shut the scheduler down and forget it; nothing to do when there
\* is none.
Stop ==
    /\ sched_call' = Called("stop", None, None)
    /\ IF StopApplies(scheduler)
       THEN /\ jobs' = jobs \ {scheduler}
            /\ scheduler' = 0
       ELSE UNCHANGED <<scheduler, jobs>>
    /\ UNCHANGED <<auto_retrain, last_check, last_retrain, starts, checks,
                   checks_log, history_log, failures_log, retraining_log,
                   retrain_calls>>

\* trigger_check_now()
TriggerCheckNow ==
    /\ checks < MaxChecks
    /\ RunCheck("trigger_check_now", "manual", 0)
    /\ UNCHANGED <<scheduler, jobs, auto_retrain, starts>>

\* The interval job of an armed scheduler fires; it fires again an interval
\* later.
TimerFire ==
    /\ jobs # {}
    /\ checks < MaxChecks
    /\ now < MaxTime
    /\ RunCheck("retrain_check", "timer", 1)
    /\ UNCHANGED <<scheduler, jobs, auto_retrain, starts>>

RunningAlways(sched, armed) == TRUE

\* self.scheduler is not None and self.scheduler.running
Running(sched, armed) == sched # 0 /\ sched \in armed

get_status ==
    [running      |-> Running(scheduler, jobs),
     auto_retrain |-> auto_retrain,
     last_check   |-> last_check,
     last_retrain |-> last_retrain]

GetStatus ==
    /\ sched_call' = Called("get_status", None, get_status)
    /\ UNCHANGED <<scheduler, jobs, auto_retrain, last_check, last_retrain,
                   starts, checks, checks_log, history_log, failures_log,
                   retraining_log, retrain_calls>>

SchedNext ==
    \/ /\ Start
       /\ UNCHANGED <<detVars, thrVars, trigVars, alertVars, predVars, fbVars>>
    \/ /\ Stop
       /\ UNCHANGED <<detVars, thrVars, trigVars, alertVars, now, predVars, fbVars>>
    \/ /\ TriggerCheckNow
       /\ UNCHANGED <<detVars, thrVars, trigVars, alertVars, predVars, fbVars>>
    \/ /\ TimerFire
       /\ UNCHANGED <<detVars, thrVars, trigVars, alertVars, predVars, fbVars>>
    \/ /\ GetStatus
       /\ UNCHANGED <<detVars, thrVars, trigVars, alertVars, now, predVars, fbVars>>

(***************************************************************************)
(* Manual checks as the days pass: trigger_check_now() on a scheduler that *)
(* was never started, with feedback recorded on the first day or a week    *)
(* before it.                                                              *)
(***************************************************************************)
\* A predictions table of n periods.
PredictionTable(n) ==
    {[id                    |-> i,
      prediction_date       |-> i,
      archived_gb_predicted |-> <<250>>,
      savings_gb_predicted  |-> <<120>>,
      archived_gb_actual    |-> NULL,
      savings_gb_actual     |-> NULL,
      created_at            |-> 0,
      updated_at            |-> 0] : i \in 1..n}

\* The rows of a table, recorded so many days earlier.
Aged(rows, days) ==
    [i \in DOMAIN rows |-> [rows[i] EXCEPT !.created_at = @ - days]]

ManualFeedbackTables ==
    SchedFeedbackTables \cup {Aged(FeedbackTable(60, 48), 7)}

ManualNext ==
    \/ /\ TriggerCheckNow
       /\ UNCHANGED <<detVars, thrVars, trigVars, alertVars, predVars, fbVars>>
    \/ /\ Tick
       /\ UNCHANGED <<detVars, thrVars, schedVars, trigVars, alertVars,
                      sessVars, predVars, fbVars>>

(***************************************************************************)
(* The scheduler with its threads.  The interval job runs on a worker      *)
(* thread of the BackgroundScheduler's executor ("timer"); a caller of     *)
(* trigger_check_now() runs the check on its own thread ("manual").  A run *)
(* of _check_conditions takes three steps: the evaluation, the retraining  *)
(* when it is due, and the evaluation's log line.  start() and stop() are  *)
(* called from one controlling thread.                                     *)
(***************************************************************************)
Threads == {"timer", "manual"}

MaxThreadChecks == 3

max_instances_two == 1 + 1

\* add_job(...) passes no max_instances, so the job keeps the library's
\* default: a firing is skipped while a run of the job is still going.
max_instances == 1

InstancesRunning == IF in_flight["timer"] = None THEN 0 ELSE 1

ThreadOp(t) == IF t = "timer" THEN "retrain_check" ELSE "trigger_check_now"

ThrIdle ==
    /\ in_flight = [t \in Threads |-> None]
    /\ stopping = FALSE

\* Thread t enters _check_conditions and evaluates.  An exception ends the
\* run at once; otherwise last_check is set and the run goes on.
BeginCheck(t) ==
    /\ checks' = checks + 1
    /\ \E eval_result \in {check_retraining_conditions(
                               feedback, Cardinality(predictions),
                               FreshDetector(Cardinality(predictions)))} :
         \E storage_ok \in BOOLEAN :
           IF ~storage_ok
           THEN /\ sched_call' =
                       Called(ThreadOp(t),
                              [by |-> t, evaluated |-> FALSE,
                               should_retrain |-> FALSE, retraining |-> "none",
                               escaped |-> ~Handled("StorageError")], None)
                /\ UNCHANGED <<in_flight, last_check>>
           ELSE /\ last_check' = <<now>>
                /\ in_flight' =
                       [in_flight EXCEPT ![t] =
                           [phase |-> IF ShouldExecute(eval_result, auto_retrain)
                                      THEN "retraining" ELSE "logging",
                            evaluation |-> eval_result,
                            retraining |-> "none"]]
                /\ UNCHANGED sched_call
    /\ UNCHANGED <<scheduler, jobs, auto_retrain, last_retrain, starts,
                   checks_log, history_log, failures_log, retraining_log,
                   retrain_calls, stopping>>

\* trigger_check_now() is called on a thread of its own, which is not
\* inside a check already.
ManualBegin ==
    /\ in_flight["manual"] = None
    /\ checks < MaxThreadChecks
    /\ BeginCheck("manual")
    /\ UNCHANGED now

\* An interval has passed on an armed scheduler: the job is handed to the
\* executor unless a run of it is still going.
IntervalElapsed ==
    /\ jobs # {}
    /\ checks < MaxThreadChecks
    /\ now < MaxTime
    /\ now' = now + 1
    /\ IF InstancesRunning < max_instances
       THEN BeginCheck("timer")
       ELSE UNCHANGED <<schedVars, thrVars, retraining_log>>

\* Thread t returns from _execute_retraining.
FinishRetraining(t) ==
    /\ in_flight[t] # None
    /\ in_flight[t].phase = "retraining"
    /\ \E outcome \in RetrainOutcomes, db_ok \in BOOLEAN, log_ok \in BOOLEAN :
         \E st \in {_execute_retraining(SchedState, in_flight[t].evaluation,
                                        outcome, db_ok, log_ok)} :
            /\ last_retrain' = st.last_retrain
            /\ history_log' = st.history_log
            /\ failures_log' = st.failures_log
            /\ retraining_log' = st.retraining_log
            /\ retrain_calls' = st.retrain_calls
            /\ in_flight' = [in_flight EXCEPT ![t].phase = "logging",
                                              ![t].retraining = outcome]
    /\ UNCHANGED <<scheduler, jobs, auto_retrain, last_check, starts, checks,
                   checks_log, sched_call, stopping, now>>

\* Thread t writes the evaluation's log line and leaves _check_conditions.
LogEvaluation(t) ==
    /\ in_flight[t] # None
    /\ in_flight[t].phase = "logging"
    /\ \E log_ok \in BOOLEAN :
         checks_log' =
             AppendLine(checks_log,
                        [timestamp      |-> now,
                         should_retrain |-> in_flight[t].evaluation.should_retrain,
                         conditions_met |-> in_flight[t].evaluation.conditions_met],
                        log_ok)
    /\ in_flight' = [in_flight EXCEPT ![t] = None]
    /\ sched_call' =
           Called(ThreadOp(t),
                  [by |-> t, evaluated |-> TRUE,
                   should_retrain |-> in_flight[t].evaluation.should_retrain,
                   retraining |-> in_flight[t].retraining,
                   escaped |-> /\ in_flight[t].retraining = "raised"
                               /\ ~Handled("RetrainingError")], None)
    /\ UNCHANGED <<scheduler, jobs, auto_retrain, last_check, last_retrain,
                   starts, checks, history_log, failures_log, retraining_log,
                   retrain_calls, stopping, now>>

\* start() on the controlling thread, its first check included.
ThreadedStart ==
    /\ ~stopping
    /\ Start
    /\ UNCHANGED thrVars

\* stop() is called: with no scheduler it returns at once; otherwise
\* scheduler.shutdown() halts the job and waits for the executor.
StopBegin ==
    /\ ~stopping
    /\ IF StopApplies(scheduler)
       THEN /\ jobs' = jobs \ {scheduler}
            /\ stopping' = TRUE
            /\ UNCHANGED sched_call
       ELSE /\ sched_call' = Called("stop", None, None)
            /\ UNCHANGED <<jobs, stopping>>
    /\ UNCHANGED <<scheduler, auto_retrain, last_check, last_retrain, starts,
                   checks, checks_log, history_log, failures_log,
                   retraining_log, retrain_calls, in_flight, now>>

\* shutdown() returns once the executor's worker has finished its run;
\* stop() forgets the scheduler and returns.
StopReturn ==
    /\ stopping
    /\ InstancesRunning = 0
    /\ stopping' = FALSE
    /\ scheduler' = 0
    /\ sched_call' = Called("stop", None, None)
    /\ UNCHANGED <<jobs, auto_retrain, last_check, last_retrain, starts,
                   checks, checks_log, history_log, failures_log,
                   retraining_log, retrain_calls, in_flight, now>>

ThrNext ==
    \/ /\ ThreadedStart
       /\ UNCHANGED <<detVars, trigVars, alertVars, predVars, fbVars>>
    \/ /\ StopBegin
       /\ UNCHANGED <<detVars, trigVars, alertVars, predVars, fbVars>>
    \/ /\ StopReturn
       /\ UNCHANGED <<detVars, trigVars, alertVars, predVars, fbVars>>
    \/ /\ ManualBegin
       /\ UNCHANGED <<detVars, trigVars, alertVars, predVars, fbVars>>
    \/ /\ IntervalElapsed
       /\ UNCHANGED <<detVars, trigVars, alertVars, predVars, fbVars>>
    \/ /\ \E t \in Threads : FinishRetraining(t)
       /\ UNCHANGED <<detVars, trigVars, alertVars, predVars, fbVars>>
    \/ /\ \E t \in Threads : LogEvaluation(t)
       /\ UNCHANGED <<detVars, trigVars, alertVars, predVars, fbVars>>

\* The threads that run checks, on a scheduler that is running.
WorkerNext ==
    \/ /\ ManualBegin
       /\ UNCHANGED <<detVars, trigVars, alertVars, predVars, fbVars>>
    \/ /\ IntervalElapsed
       /\ UNCHANGED <<detVars, trigVars, alertVars, predVars, fbVars>>
    \/ /\ \E t \in Threads : FinishRetraining(t)
       /\ UNCHANGED <<detVars, trigVars, alertVars, predVars, fbVars>>
    \/ /\ \E t \in Threads : LogEvaluation(t)
       /\ UNCHANGED <<detVars, trigVars, alertVars, predVars, fbVars>>

StoreIdle ==
    /\ now = 0
    /\ retraining_log = <<>>
    /\ predictions = {}
    /\ pred_seq = 0
    /\ pred_call = None
    /\ feedback = <<>>
    /\ feedback_call = None

(***************************************************************************)
(* DriftDetector baseline (src/src/monitoring/drift_detector.py).  Values  *)
(* are small integers; the mean and the standard deviation are kept in     *)
(* thousandths, rounded down.                                              *)
(***************************************************************************)
\* min_samples is a constructor argument: the default and one other choice.
MinSamplesArgs == {3, min_samples_default}

MaxSamples == 11

\* The values of a list of samples.
SampleValues == {1, 2, 3}

\* A list of n samples that repeats a pattern.
Repeat(pattern, n) == [i \in 1..n |-> pattern[((i - 1) % Len(pattern)) + 1]]

\* Arguments of set_baseline: lists of every length up to MaxSamples.
SampleLists ==
    {Repeat(pattern, n) :
        pattern \in [1..1 -> SampleValues] \cup [1..2 -> SampleValues],
        n \in 0..MaxSamples}

RECURSIVE SumSeq(_)
SumSeq(values) ==
    IF values = <<>> THEN 0 ELSE Head(values) + SumSeq(Tail(values))

Squares(values) == [i \in 1..Len(values) |-> values[i] * values[i]]

\* The largest r in lo..hi with r * r <= v.
RECURSIVE ISqrtIn(_, _, _)
ISqrtIn(lo, hi, v) ==
    IF lo >= hi THEN lo
    ELSE LET mid == (lo + hi + 1) \div 2
         IN  IF mid * mid <= v THEN ISqrtIn(mid, hi, v)
                               ELSE ISqrtIn(lo, mid - 1, v)

ISqrt(v) == ISqrtIn(0, 46000, v)

\* np.mean(values), in thousandths
Mean(values) == (SumSeq(values) * 1000) \div Len(values)

\* np.std(values): the population standard deviation, in thousandths
Std(values) ==
    LET n == Len(values)
        s == SumSeq(values)
    IN  ISqrt((n * SumSeq(Squares(values)) - s * s) * 1000000) \div n

TooFewOrAsMany(values, least) == Len(values) <= least

\* len(values) < self.min_samples
TooFew(values, least) == Len(values) < least

\* set_baseline(values): the detector after the call and what it returned
set_baseline(mean, std, least, values) ==
    IF TooFew(values, least)
    THEN [baseline_mean |-> mean, baseline_std |-> std, result |-> FALSE]
    ELSE [baseline_mean |-> <<Mean(values)>>,
          baseline_std  |-> <<Std(values)>>,
          result        |-> TRUE]

\* A float that is a ratio of integers (den > 0), or not a number.
NaN == [nan |-> TRUE]

Frac(num, den) == [nan |-> FALSE, num |-> num, den |-> den]

\* Comparisons of a float with an integer; every comparison with NaN is False.
FloatLess(x, k) == ~x.nan /\ x.num < k * x.den

FloatGreater(x, k) == ~x.nan /\ x.num > k * x.den

FloatAbs(x) == IF x.nan THEN x ELSE Frac(Abs(x.num), x.den)

\* np.mean of a list: NaN (and a warning) for the empty list.
np_mean(values) ==
    IF values = <<>> THEN NaN ELSE Frac(SumSeq(values), Len(values))

\* ((recent_mean - older_mean) / older_mean * 100) if older_mean != 0 else 0
\* NaN != 0 is True, and arithmetic on NaN gives NaN.
ChangePct(older_mean, recent_mean) ==
    IF older_mean.nan \/ recent_mean.nan THEN NaN
    ELSE IF older_mean.num = 0 THEN Frac(0, 1)
    ELSE Frac((recent_mean.num * older_mean.den
                  - older_mean.num * recent_mean.den) * 100,
              recent_mean.den * older_mean.num)

window_size_default == 7

WindowSizeArgs == {2, 3}

\* Values of a series with changes of 4, 5, 10, 16 and -20 percent.
TrendValues == {80, 100, 104, 110, 116}

\* Arguments of detect_trend_drift: a run of one value, then a run that
\* alternates two values.
TrendLists ==
    {Repeat(<<a>>, n) \o Repeat(<<b, c>>, m) :
        a \in {0, 100}, b \in TrendValues, c \in TrendValues,
        n \in 0..2, m \in 2..3}

\* if abs(change_pct) < 5
Stable(change_pct) == FloatLess(FloatAbs(change_pct), 5)

\* detect_trend_drift(values, window_size); slope is not modelled.
detect_trend_drift(values, window_size) ==
    IF Len(values) < window_size
    THEN [has_trend_drift  |-> FALSE,
          recent_mean      |-> Frac(0, 1),
          older_mean       |-> Frac(0, 1),
          trend_direction  |-> "unknown",
          trend_change_pct |-> Frac(0, 1),
          error            |-> "Insufficient samples"]
    ELSE LET split_point == Len(values) - window_size
             older_mean  == np_mean(SubSeq(values, 1, split_point))
             recent_mean == np_mean(SubSeq(values, split_point + 1,
                                           Len(values)))
             change_pct  == ChangePct(older_mean, recent_mean)
         IN  [has_trend_drift  |-> IF Stable(change_pct) THEN FALSE
                                   ELSE FloatGreater(FloatAbs(change_pct), 10),
              recent_mean      |-> recent_mean,
              older_mean       |-> older_mean,
              trend_direction  |-> IF Stable(change_pct) THEN "stable"
                                   ELSE IF FloatGreater(change_pct, 0)
                                        THEN "up" ELSE "down",
              trend_change_pct |-> change_pct]

\* use_baseline and self.baseline_mean is not None
UseBaseline(mean) == mean # NULL

\* z_scores > self.z_score_threshold at index i.  With the detector's
\* baseline the mean and std are the stored ones (thousandths); otherwise
\* they are those of values, compared exactly.  A std of 0 is replaced by
\* 1e-10, which puts every value that differs from the mean over the
\* threshold.
Anomalous(values, i, mean, std) ==
    IF UseBaseline(mean)
    THEN IF std[1] = 0
         THEN values[i] * 1000 # mean[1]
         ELSE Abs(values[i] * 1000 - mean[1]) * 10 > z_score_threshold * std[1]
    ELSE LET n == Len(values)
             sum == SumSeq(values)
             variance == n * SumSeq(Squares(values)) - sum * sum
         IN  IF variance = 0
             THEN n * values[i] # sum
             ELSE (n * values[i] - sum) * (n * values[i] - sum) * 100 >
                      z_score_threshold * z_score_threshold * variance

\* detect_anomalies_zscore(values) with use_baseline=True
detect_anomalies_zscore(values, mean, std) ==
    IF Len(values) < 1
    THEN [has_anomalies   |-> FALSE,
          anomaly_count   |-> 0,
          anomaly_indices |-> {},
          threshold       |-> z_score_threshold]
    ELSE LET anomaly_indices ==
                 {i \in 1..Len(values) : Anomalous(values, i, mean, std)}
         IN  [has_anomalies   |-> anomaly_indices # {},
              anomaly_count   |-> Cardinality(anomaly_indices),
              anomaly_indices |-> anomaly_indices,
              threshold       |-> z_score_threshold]

BaselineAssumed(baseline_values, mean) == TRUE

\* baseline_values is given, or the detector has a baseline
BaselineKnown(baseline_values, mean) == baseline_values \/ mean # NULL

\* detect_drift_ks_test(current_values, baseline_values): the test compares
\* with the given baseline or with a random sample drawn around the stored
\* one, and stats is the (p-value, mean change) it comes to.
detect_drift_ks_test(current_values, baseline_values, least, mean, stats) ==
    IF TooFew(current_values, least) THEN KsInsufficient
    ELSE IF ~BaselineKnown(baseline_values, mean) THEN KsNoBaseline
    ELSE KsResult(stats[1], stats[2])

DetInit ==
    /\ min_samples \in MinSamplesArgs
    /\ baseline_mean = NULL
    /\ baseline_std = NULL
    /\ det_call = None

DetIdle ==
    /\ min_samples = min_samples_default
    /\ baseline_mean = NULL
    /\ baseline_std = NULL
    /\ det_call = None

SetBaseline ==
    \E values \in SampleLists :
      \E r \in {set_baseline(baseline_mean, baseline_std, min_samples, values)} :
        /\ baseline_mean' = r.baseline_mean
        /\ baseline_std' = r.baseline_std
        /\ det_call' = [op |-> "set_baseline", values |-> values,
                        result |-> r.result]
        /\ UNCHANGED min_samples

\* The analyses read the detector and change nothing in it: det_call holds
\* the one analysis of a behaviour.
DetectTrendDrift ==
    \E values \in TrendLists, window_size \in WindowSizeArgs :
        /\ det_call = None
        /\ det_call' = [op          |-> "detect_trend_drift",
                        values      |-> values,
                        window_size |-> window_size,
                        result      |-> detect_trend_drift(values,
                                                           window_size)]
        /\ UNCHANGED <<min_samples, baseline_mean, baseline_std>>

DetNext ==
    /\ SetBaseline
    /\ UNCHANGED <<thrVars, schedVars, trigVars, alertVars, now, sessVars,
                   predVars, fbVars>>

\* check_all_drifts(values, baseline_values), baseline_values None or given
CheckAllDrifts ==
    \E values \in SampleLists, baseline_values \in BOOLEAN, stats \in KsStats :
        /\ det_call = None
        /\ det_call' =
               [op              |-> "check_all_drifts",
                values          |-> values,
                baseline_values |-> baseline_values,
                result          |->
                    check_all_drifts(
                        detect_anomalies_zscore(values, baseline_mean,
                                                baseline_std),
                        detect_drift_ks_test(values, baseline_values,
                                             min_samples, baseline_mean,
                                             stats),
                        detect_trend_drift(values, window_size_default))]
        /\ UNCHANGED <<min_samples, baseline_mean, baseline_std>>

\* The analyses of a detector whose baseline stays as it is.
AnalysisNext ==
    \/ /\ CheckAllDrifts
       /\ UNCHANGED <<thrVars, schedVars, trigVars, alertVars, now, sessVars, predVars, fbVars>>
    \/ /\ DetectTrendDrift
       /\ UNCHANGED <<thrVars, schedVars, trigVars, alertVars, now, sessVars, predVars, fbVars>>

(***************************************************************************)
(* Specifications, one per component.                                      *)
(***************************************************************************)
InitTrigger == TrigInit /\ AlertIdle /\ StoreIdle /\ SchedIdle /\ DetIdle /\ ThrIdle

SpecTrigger == InitTrigger /\ [][TrigNext]_vars

InitAlert == AlertInit /\ TrigIdle /\ StoreIdle /\ SchedIdle /\ DetIdle /\ ThrIdle

SpecAlert == InitAlert /\ [][AlertNext]_vars

InitQueries ==
    AlertIdle /\ TrigIdle /\ StoreIdle /\ SchedIdle /\ DetIdle /\ ThrIdle

SpecQueries == InitQueries /\ [][QueryNext]_vars

InitSessions ==
    /\ TrigIdle /\ AlertIdle /\ SchedIdle /\ DetIdle /\ ThrIdle
    /\ now = 0
    /\ SessInit
    /\ predictions = {} /\ pred_seq = 0 /\ pred_call = None
    /\ feedback = <<>> /\ feedback_call = None

SpecSessions == InitSessions /\ [][SessNext]_vars

InitPredictions ==
    /\ TrigIdle /\ AlertIdle /\ SchedIdle /\ DetIdle /\ ThrIdle
    /\ now = 0
    /\ retraining_log = <<>>
    /\ PredInit
    /\ feedback = <<>> /\ feedback_call = None

SpecPredictions == InitPredictions /\ [][PredNext]_vars

InitFeedback ==
    /\ TrigIdle /\ AlertIdle /\ SchedIdle /\ DetIdle /\ ThrIdle
    /\ now = 0
    /\ retraining_log = <<>>
    /\ predictions = {} /\ pred_seq = 0 /\ pred_call = None
    /\ FbInit

SpecFeedback == InitFeedback /\ [][FbNext]_vars

InitScheduler ==
    /\ TrigIdle /\ AlertIdle /\ DetIdle /\ ThrIdle
    /\ now = 0
    /\ retraining_log = <<>>
    /\ predictions = {} /\ pred_seq = 0 /\ pred_call = None
    /\ feedback \in SchedFeedbackTables
    /\ feedback_call = None
    /\ SchedInit

SpecScheduler == InitScheduler /\ [][SchedNext]_vars

InitDetector ==
    DetInit /\ TrigIdle /\ AlertIdle /\ StoreIdle /\ SchedIdle /\ ThrIdle

SpecDetector == InitDetector /\ [][DetNext]_vars

\* Baselines that set_baseline accepted.
BaselineLists == {Repeat(<<2>>, 10), Repeat(<<1, 3>>, 10), Repeat(<<1, 2>>, 10)}

\* A detector with the default thresholds, without a baseline or with one.
InitAnalysis ==
    /\ TrigIdle /\ AlertIdle /\ StoreIdle /\ SchedIdle /\ ThrIdle
    /\ min_samples = min_samples_default
    /\ \/ baseline_mean = NULL /\ baseline_std = NULL
       \/ \E values \in BaselineLists :
              \E r \in {set_baseline(NULL, NULL, min_samples_default, values)} :
                  /\ baseline_mean = r.baseline_mean
                  /\ baseline_std = r.baseline_std
    /\ det_call = None

SpecAnalysis == InitAnalysis /\ [][AnalysisNext]_vars

\* The threads find feedback that makes retraining due, or none.
InitThreads ==
    /\ TrigIdle /\ AlertIdle /\ DetIdle /\ ThrIdle
    /\ now = 0
    /\ retraining_log = <<>>
    /\ predictions = {} /\ pred_seq = 0 /\ pred_call = None
    /\ feedback \in {<<>>, FeedbackTable(60, 48)}
    /\ feedback_call = None
    /\ SchedInit

SpecThreads == InitThreads /\ [][ThrNext]_vars

\* start() has returned; its first check could not read the database.
InitWorkers ==
    /\ TrigIdle /\ AlertIdle /\ DetIdle /\ ThrIdle
    /\ now = 0
    /\ retraining_log = <<>>
    /\ predictions = {} /\ pred_seq = 0 /\ pred_call = None
    /\ feedback \in {<<>>, FeedbackTable(60, 48)}
    /\ feedback_call = None
    /\ scheduler = 1
    /\ jobs = {1}
    /\ auto_retrain = TRUE
    /\ last_check = NULL
    /\ last_retrain = NULL
    /\ starts = 1
    /\ checks = 1
    /\ checks_log = <<>>
    /\ history_log = <<>>
    /\ failures_log = <<>>
    /\ sched_call = [op     |-> "start",
                     flip   |-> FALSE,
                     check  |-> [by |-> "start", evaluation |-> None,
                                 evaluated |-> FALSE, should_retrain |-> FALSE,
                                 retraining |-> "none", escaped |-> FALSE],
                     result |-> None]
    /\ retrain_calls = 0

SpecWorkers == InitWorkers /\ [][WorkerNext]_vars

InitManual ==
    /\ TrigIdle /\ AlertIdle /\ DetIdle /\ ThrIdle
    /\ now = 0
    /\ retraining_log = <<>>
    /\ predictions \in {{}, PredictionTable(10)}
    /\ pred_seq = Cardinality(predictions)
    /\ pred_call = None
    /\ feedback \in ManualFeedbackTables
    /\ feedback_call = None
    /\ SchedInit

SpecManual == InitManual /\ [][ManualNext]_vars

InitManager ==
    /\ TrigIdle /\ AlertIdle /\ DetIdle /\ ThrIdle /\ SchedIdle
    /\ now = 0
    /\ retraining_log = <<>>
    /\ predictions = {} /\ pred_seq = 0 /\ pred_call = None
    /\ feedback \in ManualFeedbackTables
    /\ feedback_call = None

SpecManager == InitManager /\ [][ManagerNext]_vars


(***************************************************************************)
(* C1: for every combination of the three threshold conditions, evaluate   *)
(* returns should_retrain = TRUE exactly when at least 2 of the 3          *)
(* conditions hold, and conditions_met is the number of conditions that    *)
(* hold.  The conditions are recomputed here from the call's arguments.    *)
(***************************************************************************)
C1_HoldingConditions ==
    {c \in {"feedback", "drift", "accuracy"} :
        \/ c = "feedback" /\ evalArgs.feedback_count >= trigger.feedback_threshold
        \/ c = "drift" /\ evalArgs.drift_score >= trigger.drift_threshold
        \/ /\ c = "accuracy"
           /\ IF evalArgs.baseline_accuracy > 0
              THEN (evalArgs.baseline_accuracy - evalArgs.recent_accuracy) * 1000
                     >= trigger.accuracy_drop_threshold * evalArgs.baseline_accuracy
              ELSE 0 >= trigger.accuracy_drop_threshold}

C1_MajorityRule ==
    evaluation # None =>
        /\ evaluation.conditions_met = Cardinality(C1_HoldingConditions)
        /\ evaluation.should_retrain <=> Cardinality(C1_HoldingConditions) >= 2

\* The spec's scenario: feedback 60 and drift 0.35 met, accuracy drop not met.
C1_Witness ==
    /\ evaluation # None
    /\ trigger = DefaultTrigger
    /\ evalArgs.feedback_count = 60
    /\ evalArgs.drift_score = 350
    /\ C1_HoldingConditions = {"feedback", "drift"}
    /\ evaluation.should_retrain

(***************************************************************************)
(* The drift dictionary of the last create_alert_from_drift call, read for *)
(* the alert claims without the manager's own helpers.                     *)
(***************************************************************************)
C_Called == drift_results # None

C_Flag(sub, key) ==
    /\ sub \in DOMAIN drift_results
    /\ key \in DOMAIN drift_results[sub]
    /\ drift_results[sub][key] = TRUE

C_Number(sub, key, absent) ==
    IF sub \in DOMAIN drift_results /\ key \in DOMAIN drift_results[sub]
    THEN drift_results[sub][key]
    ELSE absent

C_OverallTrue ==
    /\ "overall_drift_detected" \in DOMAIN drift_results
    /\ drift_results.overall_drift_detected = TRUE

\* The three has* flags of a check_all_drifts result that are true.
C_FlagsTrue ==
    {f \in {"anomaly", "distribution_drift", "trend_drift"} :
        \/ f = "anomaly" /\ C_Flag("anomalies", "has_anomalies")
        \/ f = "distribution_drift" /\ C_Flag("distribution_drift", "has_drift")
        \/ f = "trend_drift" /\ C_Flag("trend_drift", "has_trend_drift")}

\* The three classification signals: the anomaly signal asks for
\* anomaly_count >= anomaly_alert_threshold.
C_SignalsTrue ==
    {f \in C_FlagsTrue :
        f = "anomaly" =>
            C_Number("anomalies", "anomaly_count", 0) >= manager.anomaly_alert_threshold}

AlertTypes == {"anomaly", "distribution_drift", "trend_drift", "multi_signal"}

(***************************************************************************)
(* C2 as stated: for any check_all_drifts result the alert is multi_signal *)
(* exactly when at least 2 of the three has* flags are true.  Refuted: one *)
(* anomaly (below the count threshold of 2) together with distribution     *)
(* drift gives a distribution_drift alert.                                 *)
(***************************************************************************)
C2_MultiIffTwoFlags ==
    (drift_results \in CheckAllResults /\ alert # None) =>
        (alert.alert_type = "multi_signal" <=> Cardinality(C_FlagsTrue) >= 2)

(***************************************************************************)
(* C2 amended: for any drift result at most one alert is produced, it has  *)
(* one of the four alert types, and it is multi_signal exactly when at     *)
(* least 2 of the three classification signals are true, the anomaly       *)
(* signal being has_anomalies with anomaly_count >= anomaly_alert_threshold*)
(* No step adds more than one monitoring event.                            *)
(***************************************************************************)
C2_TypeRule ==
    alert # None =>
        /\ alert.alert_type \in AlertTypes
        /\ alert.alert_type = "multi_signal" <=> Cardinality(C_SignalsTrue) >= 2

C2_MultiIffTwoSignals ==
    /\ [](C2_TypeRule)
    /\ [][Len(monitoring_events') <= Len(monitoring_events) + 1]_vars

\* One anomaly under the threshold plus distribution drift: two flags, one
\* signal, and the alert saved by the monitoring run is not multi_signal.
C2_Witness ==
    /\ drift_results \in CheckAllResults
    /\ C_FlagsTrue = {"anomaly", "distribution_drift"}
    /\ C_SignalsTrue = {"distribution_drift"}
    /\ alert # None
    /\ alert.alert_type = "distribution_drift"
    /\ alert_id > 0

C4_AlertIffOverall ==
    C_Called => (alert # None <=> C_OverallTrue)

\* A dictionary without overall_drift_detected whose flags are true: no alert.
C4_Witness ==
    /\ C_Called
    /\ "overall_drift_detected" \notin DOMAIN drift_results
    /\ C_FlagsTrue # {}
    /\ alert = None

C6_SessionStates ==
    \A i \in DOMAIN retraining_log :
        /\ retraining_log[i].status \in {"pending", "completed", "failed"}
        /\ retraining_log[i].completed_at # NULL
              <=> retraining_log[i].status # "pending"

C6_SessionSteps ==
    /\ Len(retraining_log') >= Len(retraining_log)
    /\ \A i \in DOMAIN retraining_log' :
          IF i \in DOMAIN retraining_log
          THEN retraining_log[i].status # "pending"
                  => retraining_log'[i] = retraining_log[i]
          ELSE retraining_log'[i].status = "pending"

C6_LeavesPendingOnce == [](C6_SessionStates) /\ [][C6_SessionSteps]_vars

\* What the claims about the predictions table compare: period, predicted
\* and actual values of every row.
C_Stored(rows) ==
    {[prediction_date       |-> r.prediction_date,
      archived_gb_predicted |-> r.archived_gb_predicted,
      savings_gb_predicted  |-> r.savings_gb_predicted,
      archived_gb_actual    |-> r.archived_gb_actual,
      savings_gb_actual     |-> r.savings_gb_actual] : r \in rows}

(***************************************************************************)
(* C7: after any sequence of save_prediction and update_actual_value calls *)
(* the table holds at most one row per prediction_date, and a              *)
(* save_prediction that repeats the arguments of the save_prediction       *)
(* before it leaves the same rows with the same period, predicted and      *)
(* actual values as the first one did.                                     *)
(***************************************************************************)
C7_OneRowPerPeriod ==
    \A r1, r2 \in predictions :
        r1.prediction_date = r2.prediction_date => r1 = r2

C7_RepeatedSave ==
    ( /\ pred_call # None
      /\ pred_call.op = "save_prediction"
      /\ pred_call.result # -1
      /\ pred_call'.op = "save_prediction"
      /\ pred_call'.args = pred_call.args )
    => C_Stored(predictions') = C_Stored(predictions)

C7_SaveIdempotent == [](C7_OneRowPerPeriod) /\ [][C7_RepeatedSave]_vars

C7_Witness ==
    /\ pred_call # None
    /\ pred_call.op = "save_prediction"
    /\ pred_call.repeat
    /\ pred_call.result = 2
    /\ Cardinality(predictions) = 1

(***************************************************************************)
(* C8: update_actual_value(prediction_date, a, s) is a partial update: in  *)
(* the row of that date an actual given as NULL keeps its stored value, a  *)
(* non-NULL one replaces it, and the row's predicted values, its date and  *)
(* every other row stay as they were.                                      *)
(***************************************************************************)
C8_UpdateStep ==
    ( /\ pred_call' # None
      /\ pred_call'.op = "update_actual_value" )
    => LET d == pred_call'.args[1]
           a == pred_call'.args[2]
           s == pred_call'.args[3]
       IN IF pred_call'.result
          THEN /\ Cardinality(predictions') = Cardinality(predictions)
               /\ \A r \in predictions :
                    IF r.prediction_date = d
                    THEN \E u \in predictions' :
                           /\ u.id = r.id
                           /\ u.prediction_date = r.prediction_date
                           /\ u.archived_gb_predicted = r.archived_gb_predicted
                           /\ u.savings_gb_predicted = r.savings_gb_predicted
                           /\ u.archived_gb_actual =
                                IF a = NULL THEN r.archived_gb_actual ELSE a
                           /\ u.savings_gb_actual =
                                IF s = NULL THEN r.savings_gb_actual ELSE s
                    ELSE r \in predictions'
          ELSE predictions' = predictions

C8_PartialUpdate == [][C8_UpdateStep]_vars

C8_Witness ==
    /\ pred_call # None
    /\ pred_call.op = "update_actual_value"
    /\ pred_call.result
    /\ pred_call.args[2] = NULL
    /\ pred_call.args[3] = <<0>>
    /\ Cardinality(predictions) = 2
    /\ \E r \in predictions :
          /\ r.prediction_date = pred_call.args[1]
          /\ r.archived_gb_actual = <<245>>
          /\ r.savings_gb_actual = <<0>>
          /\ r.updated_at > r.created_at

(***************************************************************************)
(* C9: for any feedback rows, whatever their status and including an empty *)
(* window, get_feedback_accuracy returns an accuracy in [0, 100] equal to  *)
(* 100 * correct / total (0 when total = 0), with                          *)
(* 0 <= correct + incorrect + uncertain <= total, where total counts the   *)
(* rows of the window and correct those of them with status 'correct'.     *)
(***************************************************************************)
C9_Metrics(m) ==
    /\ m.accuracy.den > 0
    /\ 0 <= m.accuracy.num
    /\ m.accuracy.num <= 100 * m.accuracy.den
    /\ IF m.total_feedback = 0
       THEN m.accuracy.num = 0
       ELSE m.accuracy.num * m.total_feedback
               = 100 * m.correct_feedback * m.accuracy.den
    /\ 0 <= m.correct_feedback + m.incorrect_feedback + m.uncertain_feedback
    /\ m.correct_feedback + m.incorrect_feedback + m.uncertain_feedback
          <= m.total_feedback

C9_AccuracyQuery ==
    feedback_call' # feedback_call
    => LET m == feedback_call'.result
           window == {i \in DOMAIN feedback :
                         feedback[i].created_at >= now - feedback_call'.days}
       IN /\ C9_Metrics(m)
          /\ m.total_feedback = Cardinality(window)
          /\ m.correct_feedback =
                Cardinality({i \in window :
                                feedback[i].feedback_status = "correct"})

C9_AccuracyBounds == [][C9_AccuracyQuery]_vars

C9_Witness ==
    /\ feedback_call # None
    /\ feedback_call.op = "get_feedback_accuracy"
    /\ Len(feedback) = 2
    /\ feedback_call.result.total_feedback = 2
    /\ feedback_call.result.accuracy = [num |-> 100, den |-> 2]
    /\ feedback_call.result.correct_feedback = 1
    /\ feedback_call.result.incorrect_feedback = 0
    /\ feedback_call.result.uncertain_feedback = 0

(***************************************************************************)
(* C10: start() on a scheduler that is not running runs exactly one check  *)
(* before it returns and arms one interval job; start() on a running       *)
(* scheduler changes nothing: no second job, no check, last_check and      *)
(* last_retrain as before.                                                 *)
(***************************************************************************)
C10_StartStep ==
    starts' = starts + 1
    => IF scheduler = 0
       THEN /\ checks' = checks + 1
            /\ scheduler' # 0
            /\ scheduler' \notin jobs
            /\ jobs' = jobs \cup {scheduler'}
       ELSE /\ checks' = checks
            /\ scheduler' = scheduler
            /\ jobs' = jobs
            /\ last_check' = last_check
            /\ last_retrain' = last_retrain
            /\ checks_log' = checks_log
            /\ retraining_log' = retraining_log

C10_StartOnceThenNoOp == [][C10_StartStep]_vars

C10_Witness ==
    /\ starts = 2
    /\ checks = 1
    /\ scheduler = 1
    /\ jobs = {1}
    /\ last_check # NULL
    /\ last_retrain # NULL

\* A step that is a call of the named scheduler operation.
C_SchedStep(op) ==
    /\ sched_call' # sched_call
    /\ sched_call'.op = op

\* A step in which _check_conditions ran.
C_CheckStep == checks' = checks + 1

(***************************************************************************)
(* C11: the scheduler is stopped (no BackgroundScheduler) or running (one, *)
(* with its job armed); only start() takes it from stopped to running and  *)
(* only stop() from running to stopped; stop() on a stopped scheduler      *)
(* changes nothing and a stopped scheduler starts again;                   *)
(* trigger_check_now() runs a check in either state and leaves the state   *)
(* alone; get_status()['running'] is true exactly when it is running.      *)
(***************************************************************************)
C11_StoppedOrRunning ==
    IF scheduler = 0 THEN jobs = {} ELSE jobs = {scheduler}

C11_Transitions ==
    /\ (scheduler = 0 /\ scheduler' # 0) => sched_call'.op = "start"
    /\ (scheduler # 0 /\ scheduler' = 0) => sched_call'.op = "stop"
    /\ (C_SchedStep("start") /\ scheduler = 0) => scheduler' # 0
    /\ C_SchedStep("stop") =>
          /\ scheduler' = 0
          /\ checks' = checks
          /\ scheduler = 0 =>
                UNCHANGED <<jobs, last_check, last_retrain, checks_log,
                            history_log, failures_log, retraining_log>>
    /\ C_SchedStep("trigger_check_now") =>
          /\ checks' = checks + 1
          /\ UNCHANGED <<scheduler, jobs>>
    /\ C_SchedStep("get_status") =>
          /\ sched_call'.result.running = (scheduler # 0)
          /\ UNCHANGED <<scheduler, jobs, checks>>

C11_StateMachine == [](C11_StoppedOrRunning) /\ [][C11_Transitions]_vars

C11_Witness ==
    /\ sched_call # None
    /\ sched_call.op = "get_status"
    /\ sched_call.result.running
    /\ scheduler = 2
    /\ checks = 2

(***************************************************************************)
(* C12: every run of _check_conditions, whoever started it and however it  *)
(* ended, appends exactly one line to logs/retraining_checks.jsonl, and    *)
(* no step changes or removes a line already there.  Refuted: a run whose  *)
(* evaluation raises (the database cannot be opened or read) returns       *)
(* without calling _log_evaluation.                                        *)
(***************************************************************************)
C12_LogStep ==
    /\ Len(checks_log') >= Len(checks_log)
    /\ SubSeq(checks_log', 1, Len(checks_log)) = checks_log
    /\ Len(checks_log') = Len(checks_log) + (IF C_CheckStep THEN 1 ELSE 0)

C12_OneEntryPerCheck == [][C12_LogStep]_vars

(***************************************************************************)
(* C13: a run of _check_conditions calls _execute_retraining exactly when  *)
(* its evaluation says should_retrain and auto_retrain is on; with         *)
(* auto_retrain off _execute_retraining is never called and last_retrain   *)
(* never changes.                                                          *)
(***************************************************************************)
C13_NeverWhenDisabled ==
    ~auto_retrain =>
        /\ retrain_calls = 0
        /\ last_retrain = NULL
        /\ retraining_log = <<>>
        /\ history_log = <<>>
        /\ failures_log = <<>>

C13_CheckStep ==
    IF C_CheckStep
    THEN retrain_calls' =
            retrain_calls +
            (IF sched_call'.check.should_retrain /\ auto_retrain
             THEN 1 ELSE 0)
    ELSE retrain_calls' = retrain_calls

C13_RetrainIffDecidedAndEnabled ==
    [](C13_NeverWhenDisabled) /\ [][C13_CheckStep]_vars

C13_Witness ==
    /\ ~auto_retrain
    /\ checks = 2
    /\ sched_call # None
    /\ sched_call.check # None
    /\ sched_call.check.should_retrain
    /\ Len(checks_log) = 2

(***************************************************************************)
(* C14: a failure inside a run of _check_conditions (the evaluation raises *)
(* on a storage error, or retraining fails or raises) does not leave the   *)
(* run as an exception and does not stop the timer: the scheduler and its  *)
(* armed job are as before, and the job's next firing runs a new check.    *)
(***************************************************************************)
C_FailedRun(call) ==
    /\ call # None
    /\ call.check # None
    /\ \/ ~call.check.evaluated
       \/ call.check.retraining \in {"raised", "failed_early", "failed_late"}

C14_FailureStep ==
    /\ (C_CheckStep /\ C_FailedRun(sched_call')) =>
          /\ ~sched_call'.check.escaped
          /\ IF sched_call'.op = "start"
             THEN scheduler' # 0 /\ jobs' = {scheduler'}
             ELSE UNCHANGED <<scheduler, jobs>>
    /\ (C_FailedRun(sched_call) /\ C_SchedStep("retrain_check")) =>
          /\ checks' = checks + 1
          /\ sched_call'.check.by = "timer"

C14_FailureKeepsTimer == [][C14_FailureStep]_vars

\* The first check and the timer's check after it both failed to evaluate.
C14_Witness ==
    /\ sched_call # None
    /\ sched_call.op = "retrain_check"
    /\ ~sched_call.check.evaluated
    /\ checks = 2
    /\ last_check = NULL
    /\ scheduler = 1
    /\ jobs = {1}

(***************************************************************************)
(* C15: every call of _execute_retraining is recorded with its outcome: on *)
(* success one line in logs/retraining_history.jsonl and a session that    *)
(* ends completed; on failure (failed result or exception) one line in     *)
(* logs/retraining_failures.jsonl and a session that ends failed.          *)
(* Refuted: a failed retraining leaves no session or a completed one, and  *)
(* an exception leaves no failure line.                                    *)
(***************************************************************************)
C15_RetrainStep ==
    retrain_calls' = retrain_calls + 1 =>
        /\ Len(retraining_log') = Len(retraining_log) + 1
        /\ IF sched_call'.check.retraining = "success"
           THEN /\ Len(history_log') = Len(history_log) + 1
                /\ failures_log' = failures_log
                /\ retraining_log'[Len(retraining_log')].status = "completed"
           ELSE /\ Len(failures_log') = Len(failures_log) + 1
                /\ history_log' = history_log
                /\ retraining_log'[Len(retraining_log')].status = "failed"

C15_OutcomeRecorded == [][C15_RetrainStep]_vars

(***************************************************************************)
(* C19: for a feedback count of at least 0 and a drift score and           *)
(* accuracies in [0, 1], the confidence returned by evaluate is the        *)
(* average of three scores that each lie in [0, 1], so it lies in [0, 1].  *)
(* Refuted: a recent accuracy above the baseline gives a negative accuracy *)
(* drop, a negative accuracy score and a negative confidence.              *)
(***************************************************************************)
C_InUnitInterval(frac) == frac.den > 0 /\ 0 <= frac.num /\ frac.num <= frac.den

C19_ArgsInRange ==
    /\ evalArgs # None
    /\ evalArgs.feedback_count >= 0
    /\ evalArgs.drift_score \in 0..1000
    /\ evalArgs.recent_accuracy \in 0..1000
    /\ evalArgs.baseline_accuracy \in 0..1000

C19_ConfidenceInUnitInterval ==
    C19_ArgsInRange =>
        /\ C_InUnitInterval(feedback_score(trigger, evalArgs.feedback_count))
        /\ C_InUnitInterval(drift_score_norm(trigger, evalArgs.drift_score))
        /\ C_InUnitInterval(accuracy_score(trigger, evaluation.accuracy_drop))
        /\ C_InUnitInterval(evaluation.confidence)

(***************************************************************************)
(* C20: set_baseline with fewer than min_samples values returns False      *)
(* without raising and leaves baseline_mean and baseline_std as they       *)
(* were; with at least min_samples values it returns True and replaces     *)
(* them by the mean and the standard deviation of the values.              *)
(***************************************************************************)
C20_SetBaselineStep ==
    (det_call' # det_call \/ baseline_mean' # baseline_mean
                          \/ baseline_std' # baseline_std) =>
        LET values == det_call'.values
            n == Len(values)
            s == SumSeq(values)
            v == n * SumSeq(Squares(values)) - s * s
        IN  /\ det_call'.op = "set_baseline"
            /\ det_call'.result \in BOOLEAN
            /\ n < min_samples =>
                  /\ det_call'.result = FALSE
                  /\ baseline_mean' = baseline_mean
                  /\ baseline_std' = baseline_std
            /\ n >= min_samples =>
                  /\ det_call'.result = TRUE
                  /\ baseline_mean' # NULL /\ baseline_std' # NULL
                  \* mean <= sum / n < mean + 0.001
                  /\ baseline_mean'[1] * n <= s * 1000
                  /\ s * 1000 < (baseline_mean'[1] + 1) * n
                  \* std^2 <= variance < (std + 0.001)^2
                  /\ (baseline_std'[1] * n) * (baseline_std'[1] * n) <= v * 1000000
                  /\ v * 1000000 < ((baseline_std'[1] + 1) * n) * ((baseline_std'[1] + 1) * n)

C20_SetBaseline == [][C20_SetBaselineStep]_vars

\* A baseline was set, and a later call with too few values left it alone.
C20_Witness ==
    /\ det_call # None
    /\ det_call.result = FALSE
    /\ Len(det_call.values) = min_samples - 1
    /\ baseline_mean = <<1500>>
    /\ baseline_std = <<500>>

(***************************************************************************)
(* C16: stop() halts the timer and lets any check in flight finish before  *)
(* it returns: when stop() returns no thread, the timer's or a manual      *)
(* caller's, is inside a check or its retraining, and the timer's job      *)
(* begins no check while there is no scheduler or a stop() is going on.    *)
(* Refuted: shutdown() waits for the job's run only, so stop() returns     *)
(* while a manual check is still in flight.                                *)
(***************************************************************************)
C_StopReturns == scheduler # 0 /\ scheduler' = 0

C_TimerCheckBegins == now' = now + 1 /\ checks' = checks + 1

C16_StopStep ==
    /\ C_StopReturns => \A t \in Threads : in_flight'[t] = None
    /\ C_TimerCheckBegins => scheduler # 0 /\ ~stopping

C16_StopWaitsForChecks == [][C16_StopStep]_vars

(***************************************************************************)
(* C17: a manual check and the timer's check that run at the same time on  *)
(* different threads both complete, and each appends its own entry to the  *)
(* evaluation log.  Stated for the step in which one of them leaves        *)
(* _check_conditions while the other is inside it.                         *)
(* Refuted: the check that fails to evaluate, or to write its line, leaves *)
(* without an entry (the defect of C12).                                   *)
(***************************************************************************)
C_Leaves(t) ==
    \/ in_flight[t] # None /\ in_flight'[t] = None
    \/ /\ in_flight[t] = None /\ in_flight'[t] = None
       /\ checks' = checks + 1
       /\ sched_call'.check.by = t

C17_InterleavedStep ==
    \A t \in Threads, u \in Threads :
        (t # u /\ in_flight[u] # None /\ C_Leaves(t)) =>
            /\ Len(checks_log') = Len(checks_log) + 1
            /\ in_flight'[u] = in_flight[u]

C17_InterleavedChecksEachLog == [][C17_InterleavedStep]_vars

(***************************************************************************)
(* C18: a retraining that is still running does not delay the next         *)
(* scheduled check: when the interval elapses while a retraining is in     *)
(* progress, the timer's check begins and the retraining goes on.          *)
(* Refuted: the retraining runs inside the job's own run, and the next     *)
(* firing is skipped while that run is going.                              *)
(***************************************************************************)
C_RetrainingInProgress(flight) ==
    \E t \in Threads : flight[t] # None /\ flight[t].phase = "retraining"

C18_IntervalStep ==
    (now' = now + 1 /\ C_RetrainingInProgress(in_flight)) =>
        /\ checks' = checks + 1
        /\ C_RetrainingInProgress(in_flight')

C18_RetrainingDoesNotDelayChecks == [][C18_IntervalStep]_vars

(***************************************************************************)
(* C30: last_check changes only in a check whose evaluation returned, and  *)
(* last_retrain only in a check whose retraining returned success; both    *)
(* then hold the time of that check; a set last_retrain implies a set      *)
(* last_check; start() on a running scheduler and stop() leave both alone, *)
(* and no step sets either back to None.                                   *)
(***************************************************************************)
C30_RetrainImpliesCheck == last_retrain # NULL => last_check # NULL

C30_TimesStep ==
    /\ last_check' # last_check =>
          /\ C_CheckStep
          /\ sched_call'.check.evaluated
          /\ last_check' = <<now>>
    /\ last_retrain' # last_retrain =>
          /\ C_CheckStep
          /\ sched_call'.check.retraining = "success"
          /\ last_retrain' = <<now>>
    /\ (C_CheckStep /\ ~sched_call'.check.evaluated) =>
          UNCHANGED <<last_check, last_retrain>>
    /\ (C_CheckStep /\ sched_call'.check.retraining # "success") =>
          UNCHANGED last_retrain
    /\ (C_SchedStep("stop") \/ (C_SchedStep("start") /\ ~C_CheckStep)) =>
          UNCHANGED <<last_check, last_retrain>>
    /\ last_check # NULL => last_check' # NULL
    /\ last_retrain # NULL => last_retrain' # NULL

C30_CheckAndRetrainTimes ==
    [](C30_RetrainImpliesCheck) /\ [][C30_TimesStep]_vars

\* Both times survive a stop() and a second start() whose first check and
\* the retraining it would have made fail.
C30_Witness ==
    /\ scheduler = 2
    /\ sched_call # None
    /\ sched_call.op = "start"
    /\ ~sched_call.check.evaluated
    /\ last_check = <<0>>
    /\ last_retrain = <<0>>

(***************************************************************************)
(* C26: a check leaves the feedback and the predictions as they are, and   *)
(* with auto_retrain on and no feedback or prediction recorded in between, *)
(* the check that follows a check that called _execute_retraining          *)
(* evaluates should_retrain again and calls _execute_retraining again.     *)
(* The following check is taken to be one whose evaluation returned.       *)
(* Refuted: the feedback is counted over the last 7 days, so rows that the *)
(* first check counted can be too old for the next one.                    *)
(***************************************************************************)
C_AfterRetrainingCheck ==
    /\ auto_retrain
    /\ sched_call # None
    /\ sched_call.check # None
    /\ sched_call.check.retraining # "none"
    /\ C_CheckStep
    /\ sched_call'.check.evaluated

C_RetrainsAgain ==
    /\ sched_call'.check.should_retrain
    /\ retrain_calls' = retrain_calls + 1

C26_NextCheckStep ==
    /\ UNCHANGED <<feedback, predictions>>
    /\ C_AfterRetrainingCheck => C_RetrainsAgain

C26_NoCooldown == [][C26_NextCheckStep]_vars

\* The rows inside the 7-day and the 30-day window at a given time.
C_Windows(time) ==
    <<{i \in DOMAIN feedback : feedback[i].created_at >= time - 7},
      {i \in DOMAIN feedback : feedback[i].created_at >= time - 30}>>

(***************************************************************************)
(* C26, amended: the same, provided the rows inside the 7-day and 30-day   *)
(* windows are the same rows at both checks (last_check is the time of the *)
(* earlier one).                                                           *)
(***************************************************************************)
C26_AmendedStep ==
    /\ UNCHANGED <<feedback, predictions>>
    /\ (C_AfterRetrainingCheck /\ C_Windows(last_check[1]) = C_Windows(now)) =>
          C_RetrainsAgain

C26_NoCooldownWhileInWindow == [][C26_AmendedStep]_vars

\* A day after a check that retrained, the next check retrained again.
C26_Witness ==
    /\ auto_retrain
    /\ now = 1
    /\ last_check = <<1>>
    /\ checks = 2
    /\ retrain_calls = 2
    /\ feedback # <<>>
    /\ feedback[1].created_at = 0

(***************************************************************************)
(* C23: check_retraining_conditions hands evaluate a drift score of        *)
(* 1 - p_value when the KS test ran on at least 10 recent predicted values *)
(* and reports drift, and of 0 in every other case (fewer than 10 values,  *)
(* no detector, no drift, the detector raising); without a feedback or a   *)
(* prediction store it returns a not-configured result with               *)
(* should_retrain = FALSE and raises nothing.                              *)
(***************************************************************************)
C23_DriftScore ==
    evalArgs # None =>
        IF ~evalArgs.has_feedback_db \/ ~evalArgs.has_predictions_db
        THEN /\ evaluation.should_retrain = FALSE
             /\ evaluation.error = TRUE
        ELSE /\ evaluation.should_retrain \in BOOLEAN
             /\ evaluation.metrics.drift_score =
                   IF /\ evalArgs.detector = "runs"
                      /\ evalArgs.samples >= 10
                      /\ evalArgs.drift_result.has_drift
                   THEN 1000 - evalArgs.drift_result.p_value
                   ELSE 0

\* Drift was reported on 10 values and the score is 1 - 0.005.
C23_Witness ==
    /\ evalArgs # None
    /\ evalArgs.has_feedback_db /\ evalArgs.has_predictions_db
    /\ evalArgs.detector = "runs"
    /\ evalArgs.samples = 10
    /\ evalArgs.drift_result.has_drift
    /\ evaluation.metrics.drift_score = 995

(***************************************************************************)
(* C25: every check of the scheduler builds a new DriftDetector on which   *)
(* no baseline is set, so its KS test reports no drift and the evaluation  *)
(* gets a drift score of 0; a check then evaluates should_retrain only     *)
(* when the feedback-count condition and the accuracy-drop condition both  *)
(* hold.                                                                   *)
(***************************************************************************)
C_EvaluatedCheck == C_CheckStep /\ sched_call'.check.evaluated

C25_CheckStep ==
    C_EvaluatedCheck =>
        LET ev == sched_call'.check.evaluation
        IN /\ ev.metrics.drift_score = 0
           /\ ~ev.trigger_details.condition_drift
           /\ ev.should_retrain =>
                 /\ ev.trigger_details.condition_feedback
                 /\ ev.trigger_details.condition_accuracy
                 /\ ev.metrics.feedback_count >= feedback_threshold_default

C25_SchedulerSeesNoDrift == [][C25_CheckStep]_vars

\* A check found 10 predictions to test and decided to retrain.
C25_Witness ==
    /\ Cardinality(predictions) = 10
    /\ sched_call # None
    /\ sched_call.check.evaluated
    /\ sched_call.check.should_retrain
    /\ sched_call.check.evaluation.metrics.drift_score = 0

(***************************************************************************)
(* C29: with no feedback in the last 30 days check_retraining_conditions   *)
(* evaluates a recent accuracy of 0 against the fixed baseline 0.88, so    *)
(* the accuracy drop is 1 and the accuracy-drop condition is met although  *)
(* there is no feedback; and whenever the recent accuracy is above the     *)
(* baseline the accuracy drop is negative and the condition is false.      *)
(***************************************************************************)
C29_AccuracyDrop ==
    (evalArgs # None /\ evalArgs.has_feedback_db /\ evalArgs.has_predictions_db) =>
        LET m == evaluation.metrics
        IN /\ m.baseline_accuracy = 880
           /\ {i \in DOMAIN feedback : feedback[i].created_at >= now - 30} = {} =>
                 /\ m.recent_accuracy = 0
                 /\ m.accuracy_drop.num = m.accuracy_drop.den
                 /\ evaluation.trigger_details.condition_accuracy
           /\ m.recent_accuracy > m.baseline_accuracy =>
                 /\ m.accuracy_drop.num < 0 /\ m.accuracy_drop.den > 0
                 /\ ~evaluation.trigger_details.condition_accuracy

\* No feedback at all, and the accuracy-drop condition is the one met.
C29_Witness ==
    /\ evalArgs # None
    /\ evalArgs.has_feedback_db /\ evalArgs.has_predictions_db
    /\ feedback = <<>>
    /\ evaluation.conditions_met = 1
    /\ evaluation.trigger_details.condition_accuracy

\* 95% of the feedback is correct: the drop is negative.
C29_WitnessAbove ==
    /\ evalArgs # None
    /\ evalArgs.has_feedback_db /\ evalArgs.has_predictions_db
    /\ evaluation.metrics.recent_accuracy = 950
    /\ evaluation.metrics.accuracy_drop.num < 0

(***************************************************************************)
(* C27: at any time at most one call of _execute_retraining is in          *)
(* progress, however the checks of start(), of the timer and of            *)
(* trigger_check_now() callers on other threads interleave.                *)
(* Refuted: the timer's check and a manual check can both be inside        *)
(* _execute_retraining.                                                    *)
(***************************************************************************)
C_Retraining ==
    {t \in Threads : in_flight[t] # None /\ in_flight[t].phase = "retraining"}

C27_OneRetrainingAtATime == Cardinality(C_Retraining) <= 1

(***************************************************************************)
(* C27, amended: the timer's job begins a check only when no run of the    *)
(* job is in flight, so at most one retraining started by the timer is in  *)
(* progress; a retraining started by a manual check can be in progress at  *)
(* the same time.                                                          *)
(***************************************************************************)
C27_TimerStep == C_TimerCheckBegins => in_flight["timer"] = None

C27_OneTimerRunAtATime == [][C27_TimerStep]_vars

\* The timer's check and a manual check are both retraining.
C27_Witness ==
    /\ C_Retraining = Threads
    /\ now = 1

(***************************************************************************)
(* C28: save_prediction for a date that already has a row replaces the     *)
(* whole row: the stored predicted and actual values are exactly the       *)
(* arguments of this call (an omitted actual is stored as NULL, whatever   *)
(* update_actual_value had stored before), the row has an id no row had    *)
(* before, and the number of rows is unchanged.                            *)
(***************************************************************************)
\* This step is a save_prediction that stored its row.
C_Saved == pred_seq' = pred_seq + 1

C_Overwrites == Conflicting(predictions, pred_call'.args[1]) # {}

C_RowsOf(rows, prediction_date) ==
    {[archived_gb_predicted |-> r.archived_gb_predicted,
      savings_gb_predicted  |-> r.savings_gb_predicted,
      archived_gb_actual    |-> r.archived_gb_actual,
      savings_gb_actual     |-> r.savings_gb_actual] :
        r \in Conflicting(rows, prediction_date)}

C28_SaveStep ==
    (C_Saved /\ C_Overwrites) =>
        /\ C_RowsOf(predictions', pred_call'.args[1]) =
               {[archived_gb_predicted |-> pred_call'.args[2],
                 savings_gb_predicted  |-> pred_call'.args[3],
                 archived_gb_actual    |-> pred_call'.args[4],
                 savings_gb_actual     |-> pred_call'.args[5]]}
        /\ \A r \in Conflicting(predictions', pred_call'.args[1]) :
               /\ r.id = pred_call'.result
               /\ \A old \in predictions : old.id < r.id
        /\ Cardinality(predictions') = Cardinality(predictions)
        /\ predictions' \ Conflicting(predictions', pred_call'.args[1]) =
               predictions \ Conflicting(predictions, pred_call'.args[1])

C28_SaveReplacesRow == [][C28_SaveStep]_vars

\* The second save for a date, with both actuals omitted: the table holds
\* one row, with the new id and NULL actuals.
C28_Witness ==
    /\ pred_call # None
    /\ pred_call.op = "save_prediction"
    /\ pred_call.args[4] = NULL
    /\ pred_call.args[5] = NULL
    /\ pred_call.result = 2
    /\ Cardinality(predictions) = 1
    /\ \A r \in predictions : r.archived_gb_actual = NULL /\ r.id = 2

(***************************************************************************)
(* C24: for an input of at least window_size values detect_trend_drift     *)
(* reports 'stable' exactly when |trend_change_pct| < 5, otherwise 'up'    *)
(* when the change is positive and 'down' when it is negative; it reports  *)
(* has_trend_drift exactly when |trend_change_pct| > 10, so never together *)
(* with 'stable'; the change is 0 when older_mean is 0; and an input       *)
(* shorter than window_size gives has_trend_drift False.                   *)
(***************************************************************************)
C_TrendCall == det_call # None /\ det_call.op = "detect_trend_drift"

C_TrendOf(result) ==
    /\ result.trend_direction \in {"stable", "up", "down"}
    /\ result.trend_direction = "stable" <=>
           FloatLess(FloatAbs(result.trend_change_pct), 5)
    /\ result.trend_direction = "up" =>
           FloatGreater(result.trend_change_pct, 0)
    /\ result.trend_direction = "down" =>
           FloatLess(result.trend_change_pct, 0)
    /\ result.has_trend_drift <=>
           FloatGreater(FloatAbs(result.trend_change_pct), 10)
    /\ ~(result.has_trend_drift /\ result.trend_direction = "stable")
    /\ (~result.older_mean.nan /\ result.older_mean.num = 0) =>
           result.trend_change_pct = Frac(0, 1)

C24_TrendDirection ==
    C_TrendCall =>
        IF Len(det_call.values) >= det_call.window_size
        THEN C_TrendOf(det_call.result)
        ELSE ~det_call.result.has_trend_drift

\* The same with more than window_size values: the older part is not empty.
C24_TrendDirectionWithOlder ==
    C_TrendCall =>
        IF Len(det_call.values) > det_call.window_size
        THEN C_TrendOf(det_call.result)
        ELSE ~det_call.result.has_trend_drift

\* A change of exactly 5 percent is reported as 'up' without drift.
C24_Witness ==
    /\ C_TrendCall
    /\ Len(det_call.values) > det_call.window_size
    /\ det_call.result.trend_change_pct = Frac(1000, 200)
    /\ det_call.result.trend_direction = "up"

(***************************************************************************)
(* C21: check_all_drifts on an empty list, on a list of one value, or on a *)
(* list of equal values of any length reports no anomalies and             *)
(* overall_drift_detected False (and trend 'stable' for equal values that  *)
(* fill the trend window), whether or not the detector has a baseline.     *)
(***************************************************************************)
C_CheckAllCall == det_call # None /\ det_call.op = "check_all_drifts"

C_Constant(values) ==
    /\ values # <<>>
    /\ \A i \in 1..Len(values) : values[i] = values[1]

C_Quiet(result) ==
    /\ ~result.anomalies.has_anomalies
    /\ result.anomalies.anomaly_count = 0
    /\ ~result.overall_drift_detected

C_Query == alert_call' # alert_call

\* The alert events of the query's window whose metadata is what save_alert
\* writes.
C_WellFormed(call) ==
    {e \in get_monitoring_events(monitoring_events, call.days, "alert",
                                 call.severity) :
        e.metadata = <<"{alert}">>}

C_Returned(call) ==
    IF call.op = "get_alert_summary"
    THEN call.summary.total_alerts >= Cardinality(C_WellFormed(call))
    ELSE \A e \in C_WellFormed(call) : AlertRow(e) \in call.alerts

C22_QueryStep ==
    C_Query =>
        /\ monitoring_events' = monitoring_events
        /\ alert_call'.db_ok => C_Returned(alert_call')

C22_QueriesTolerateMetadata == [][C22_QueryStep]_vars

\* The queries change no row, and lose none while no stored metadata is
\* JSON of another kind than an object.
C22_TolerantStep ==
    C_Query =>
        /\ monitoring_events' = monitoring_events
        /\ (/\ alert_call'.db_ok
            /\ \A i \in 1..Len(monitoring_events) :
                   ~Escapes(monitoring_events[i])) =>
               C_Returned(alert_call')

C22_QueriesTolerateTextAndNull == [][C22_TolerantStep]_vars

\* A query that returned an alert next to one whose metadata is no JSON.
C22_WitnessSkipped ==
    /\ alert_call # None
    /\ alert_call.op = "get_active_alerts"
    /\ Cardinality(alert_call.alerts) = 1
    /\ Len(monitoring_events) = 2
    /\ \E i \in 1..2 : monitoring_events[i].event_type = "alert"
                        /\ Skipped(monitoring_events[i])

=============================================================================
